---- MODULE Spec2Model ----
(***************************************************************************)
(* Layout pipeline of rust-minibrowser (src/src/layout.rs): box            *)
(* generation, block formatting, inline formatting, table rows and hit     *)
(* testing, as a state machine over one document:                          *)
(*     init --BuildLayoutTree--> built --Layout--> laid --FindBox--> ...   *)
(* Lengths are f32 pixels in the source; here they are integers, and the   *)
(* inputs are chosen so that every division the code performs is exact.    *)
(***************************************************************************)
EXTENDS Integers, Sequences, FiniteSets, TLC

VARIABLES
    styled,       \* the root StyledNode handed to build_layout_tree
    viewport,     \* the Dimensions handed to the root's layout call
    pc,           \* "init" | "built" | "laid" | "relaid" | "queried"
                  \* | "build_panicked" | "layout_panicked"
    layout_root,  \* the LayoutBox tree (NoBox before it is built)
    render_root,  \* the RenderBox tree (NoRender before layout)
    query,        \* the last point handed to find_box_containing
    hit,          \* the QueryResult of that call
    window        \* the locals of main's window loop, and what each held
                  \* button has started

vars == <<styled, viewport, pc, layout_root, render_root, query, hit, window>>

(***************************************************************************)
(* Bounds of the model.                                                    *)
(***************************************************************************)
MaxChildren == 2      \* children of the root block in the flow family
MaxWords == 3         \* words of a text node in the inline family
MaxViewports == 2     \* containing widths tried: 120, 240, ...
MaxGrid == 7          \* hit-test grid: coordinates -10, 0, 10, ...
MaxFrames == 4        \* iterations of the window loop

(***************************************************************************)
(* Geometry primitives.                                                    *)
(***************************************************************************)
Max(a, b) == IF a >= b THEN a ELSE b

MkRect(x, y, w, h) == [x |-> x, y |-> y, width |-> w, height |-> h]

MkEdges(l, r, t, b) == [left |-> l, right |-> r, top |-> t, bottom |-> b]

DefaultRect == MkRect(0, 0, 0, 0)

DefaultEdgeSizes == MkEdges(0, 0, 0, 0)

DefaultDimensions ==
    [content |-> DefaultRect, padding |-> DefaultEdgeSizes,
     border |-> DefaultEdgeSizes, margin |-> DefaultEdgeSizes]

expanded_by(r, edge) ==
    MkRect(r.x - edge.left, r.y - edge.top,
           r.width + edge.left + edge.right,
           r.height + edge.top + edge.bottom)

padding_box(d) == expanded_by(d.content, d.padding)

border_box(d) == expanded_by(padding_box(d), d.border)

margin_box(d) == expanded_by(border_box(d), d.margin)

containsBottomClosed(r, x, y) ==
    r.x <= x /\ r.x + r.width >= x /\ r.y <= y /\ r.y + r.height >= y

contains(r, x, y) ==
    r.x <= x /\ r.x + r.width >= x /\ r.y <= y /\ r.y + r.height > y

(***************************************************************************)
(* CSS values: Keyword(s) and Length(v, unit), unit in px, em, rem, per.   *)
(***************************************************************************)
Keyword(s) == [t |-> "kw", s |-> s, v |-> 0, u |-> "-", items |-> <<>>]

StringLiteral(s) == [t |-> "str", s |-> s, v |-> 0, u |-> "-", items |-> <<>>]

Length(v, u) == [t |-> "len", s |-> "", v |-> v, u |-> u, items |-> <<>>]

\* items: a sequence of Keyword / StringLiteral values
ArrayValue(items) == [t |-> "arr", s |-> "", v |-> 0, u |-> "-", items |-> items]

Px(v) == Length(v, "px")

auto == Keyword("auto")

zero == Length(0, "px")

(***************************************************************************)
(* Styled nodes.  props is the map of resolved declarations, attrs the     *)
(* element's attribute map, words the measured widths of the words of a    *)
(* text node (each with its leading space), img what the image loader      *)
(* answers for the element's src.                                          *)
(***************************************************************************)
NoProps == [n \in {} |-> zero]

NoImage == [ok |-> FALSE, width |-> 0, height |-> 0]

Element(tag, disp, props, attrs, children) ==
    [kind |-> "element", tag |-> tag, display |-> disp, props |-> props,
     attrs |-> attrs, words |-> <<>>, img |-> NoImage, children |-> children]

Text(words) ==
    [kind |-> "text", tag |-> "#text", display |-> "inline", props |-> NoProps,
     attrs |-> NoProps, words |-> words, img |-> NoImage, children |-> <<>>]

display(node) == node.display

HasValue(node, name) == name \in DOMAIN node.props

lookup(node, name, shorthand, default) ==
    IF name \in DOMAIN node.props THEN node.props[name]
    ELSE IF shorthand \in DOMAIN node.props THEN node.props[shorthand]
    ELSE default

lookup_length_px(node, name, default) ==
    IF HasValue(node, name) /\ node.props[name].t = "len" /\ node.props[name].u = "px"
    THEN node.props[name].v
    ELSE default

lookup_string(node, name, default) ==
    IF HasValue(node, name) /\ node.props[name].t = "kw"
    THEN node.props[name].s
    ELSE default

(***************************************************************************)
(* The layout tree.                                                        *)
(***************************************************************************)
NoBox == [box_type |-> "None"]

NoRender == [kind |-> "None"]

new(box_type, node) ==
    [box_type |-> box_type, node |-> node,
     dimensions |-> DefaultDimensions, children |-> <<>>]

get_style_node(box) == box.node

BoxTypeOfDisplay(d) ==
    CASE d = "block" -> "BlockNode"
      [] d = "inline" -> "InlineNode"
      [] d = "inline-block" -> "InlineBlockNode"
      [] d = "table" -> "TableNode"
      [] d = "table-row-group" -> "TableRowGroupNode"
      [] d = "table-row" -> "TableRowNode"
      [] d = "table-cell" -> "TableCellNode"
      [] OTHER -> "Panic"

ReplaceLast(s, e) == [s EXCEPT ![Len(s)] = e]

get_inline_container_always_new(box) ==
    IF box.box_type \in {"InlineNode", "InlineBlockNode", "AnonymousBlock", "TableCellNode"}
    THEN box
    ELSE [box EXCEPT !.children = Append(@, new("AnonymousBlock", box.node))]

\* The box with its inline container in place: the box itself, or its last
\* child made an AnonymousBlock.
get_inline_container(box) ==
    IF box.box_type \in {"InlineNode", "InlineBlockNode", "AnonymousBlock", "TableCellNode"}
    THEN box
    ELSE IF Len(box.children) > 0 /\ box.children[Len(box.children)].box_type = "AnonymousBlock"
         THEN box
         ELSE [box EXCEPT !.children = Append(@, new("AnonymousBlock", box.node))]

\* root.get_inline_container().children.push(child)
push_inline(box, child) ==
    LET b == get_inline_container(box) IN
    IF b.box_type \in {"InlineNode", "InlineBlockNode", "AnonymousBlock", "TableCellNode"}
    THEN [b EXCEPT !.children = Append(@, child)]
    ELSE [b EXCEPT !.children =
              ReplaceLast(@, [@[Len(@)] EXCEPT !.children = Append(@, child)])]

RECURSIVE build_layout_tree(_)
RECURSIVE build_children(_, _)

build_children_keep_none(root, i) ==
    IF i > Len(root.node.children) THEN root
    ELSE LET child == root.node.children[i]
             d == display(child)
             next == IF d \in {"inline", "inline-block"}
                     THEN push_inline(root, build_layout_tree(child))
                     ELSE [root EXCEPT !.children = Append(@, build_layout_tree(child))]
         IN build_children(next, i + 1)

build_children(root, i) ==
    IF i > Len(root.node.children) THEN root
    ELSE LET child == root.node.children[i]
             d == display(child)
             next == IF d \in {"inline", "inline-block"}
                     THEN push_inline(root, build_layout_tree(child))
                     ELSE IF d = "none"
                          THEN root
                          ELSE [root EXCEPT !.children = Append(@, build_layout_tree(child))]
         IN build_children(next, i + 1)

build_layout_tree(style_node) ==
    IF display(style_node) = "none"
    THEN [box_type |-> "Panic", node |-> style_node,
          dimensions |-> DefaultDimensions, children |-> <<>>]
    ELSE build_children(new(BoxTypeOfDisplay(display(style_node)), style_node), 1)

(***************************************************************************)
(* Block formatting.                                                       *)
(***************************************************************************)
length_to_px(box, value) ==
    LET font_size == lookup_length_px(get_style_node(box), "font-size", 10) IN
    IF value.t # "len" THEN 0
    ELSE CASE value.u = "px" -> value.v
           [] value.u = "em" -> value.v * font_size
           [] value.u = "rem" -> value.v * font_size
           [] OTHER -> 0

\* The declared values calculate_block_width starts from (lines 730-748).
declared_widths(box, containing) ==
    LET style == get_style_node(box)
        w0 == IF HasValue(style, "width") THEN style.props["width"] ELSE auto
    IN  [width |-> IF w0.t = "len" /\ w0.u = "per"
                   THEN Px((containing.content.width * w0.v) \div 100)
                   ELSE w0,
         margin_left |-> lookup(style, "margin-left", "margin", zero),
         margin_right |-> lookup(style, "margin-right", "margin", zero),
         border_left |-> lookup(style, "border-width-left", "border-width", zero),
         border_right |-> lookup(style, "border-width-right", "border-width", zero),
         padding_left |-> lookup(style, "padding-left", "padding", zero),
         padding_right |-> lookup(style, "padding-right", "padding", zero)]

total_width(box, d) ==
    length_to_px(box, d.margin_left) + length_to_px(box, d.margin_right)
    + length_to_px(box, d.border_left) + length_to_px(box, d.border_right)
    + length_to_px(box, d.padding_left) + length_to_px(box, d.padding_right)
    + length_to_px(box, d.width)

\* The used values: the overflow rule and the match of lines 750-788.
used_widths_no_halving(box, containing) ==
    LET resolve(d, ml, mr, underflow) ==
            CASE d.width # auto /\ ml # auto /\ mr # auto ->
                   [d EXCEPT !.margin_left = ml,
                             !.margin_right = Px(length_to_px(box, mr) + underflow)]
              [] d.width # auto /\ ml # auto /\ mr = auto ->
                   [d EXCEPT !.margin_left = ml, !.margin_right = Px(underflow)]
              [] d.width # auto /\ ml = auto /\ mr # auto ->
                   [d EXCEPT !.margin_left = Px(underflow), !.margin_right = mr]
              [] d.width # auto /\ ml = auto /\ mr = auto ->
                   [d EXCEPT !.margin_left = Px(underflow),
                             !.margin_right = Px(underflow)]
              [] OTHER ->
                   LET ml0 == IF ml = auto THEN zero ELSE ml
                       mr0 == IF mr = auto THEN zero ELSE mr
                   IN  IF underflow >= 0
                       THEN [d EXCEPT !.margin_left = ml0, !.margin_right = mr0,
                                      !.width = Px(underflow)]
                       ELSE [d EXCEPT !.margin_left = ml0, !.width = zero,
                                      !.margin_right = Px(length_to_px(box, mr0) + underflow)]
        overflow(d, total, over) ==
            resolve(d,
                    IF over /\ d.margin_left = auto THEN zero ELSE d.margin_left,
                    IF over /\ d.margin_right = auto THEN zero ELSE d.margin_right,
                    containing.content.width - total)
        summed(d, total) ==
            overflow(d, total, d.width # auto /\ total > containing.content.width)
        declared(d) == summed(d, total_width(box, d))
    IN  declared(declared_widths(box, containing))

used_widths_keep_auto_margins(box, containing) ==
    LET resolve(d, underflow) ==
            CASE d.width # auto /\ d.margin_left # auto /\ d.margin_right # auto ->
                   [d EXCEPT !.margin_right =
                                 Px(length_to_px(box, d.margin_right) + underflow)]
              [] d.width # auto /\ d.margin_left # auto /\ d.margin_right = auto ->
                   [d EXCEPT !.margin_right = Px(underflow)]
              [] d.width # auto /\ d.margin_left = auto /\ d.margin_right # auto ->
                   [d EXCEPT !.margin_left = Px(underflow)]
              [] d.width # auto /\ d.margin_left = auto /\ d.margin_right = auto ->
                   [d EXCEPT !.margin_left = Px(underflow \div 2),
                             !.margin_right = Px(underflow \div 2)]
              [] OTHER ->
                   IF underflow >= 0
                   THEN [d EXCEPT !.width = Px(underflow)]
                   ELSE [d EXCEPT !.width = zero,
                                  !.margin_right =
                                      Px(length_to_px(box, d.margin_right) + underflow)]
        declared(d) == resolve(d, containing.content.width - total_width(box, d))
    IN  declared(declared_widths(box, containing))

used_widths(box, containing) ==
    LET resolve(d, ml, mr, underflow) ==
            CASE d.width # auto /\ ml # auto /\ mr # auto ->
                   [d EXCEPT !.margin_left = ml,
                             !.margin_right = Px(length_to_px(box, mr) + underflow)]
              [] d.width # auto /\ ml # auto /\ mr = auto ->
                   [d EXCEPT !.margin_left = ml, !.margin_right = Px(underflow)]
              [] d.width # auto /\ ml = auto /\ mr # auto ->
                   [d EXCEPT !.margin_left = Px(underflow), !.margin_right = mr]
              [] d.width # auto /\ ml = auto /\ mr = auto ->
                   [d EXCEPT !.margin_left = Px(underflow \div 2),
                             !.margin_right = Px(underflow \div 2)]
              [] OTHER ->
                   LET ml0 == IF ml = auto THEN zero ELSE ml
                       mr0 == IF mr = auto THEN zero ELSE mr
                   IN  IF underflow >= 0
                       THEN [d EXCEPT !.margin_left = ml0, !.margin_right = mr0,
                                      !.width = Px(underflow)]
                       ELSE [d EXCEPT !.margin_left = ml0, !.width = zero,
                                      !.margin_right = Px(length_to_px(box, mr0) + underflow)]
        overflow(d, total, over) ==
            resolve(d,
                    IF over /\ d.margin_left = auto THEN zero ELSE d.margin_left,
                    IF over /\ d.margin_right = auto THEN zero ELSE d.margin_right,
                    containing.content.width - total)
        summed(d, total) ==
            overflow(d, total, d.width # auto /\ total > containing.content.width)
        declared(d) == summed(d, total_width(box, d))
    IN  declared(declared_widths(box, containing))

calculate_block_width(box, containing) ==
    LET assign(u) ==
            [box EXCEPT !.dimensions.content.width = length_to_px(box, u.width),
                        !.dimensions.padding.left = length_to_px(box, u.padding_left),
                        !.dimensions.padding.right = length_to_px(box, u.padding_right),
                        !.dimensions.border.left = length_to_px(box, u.border_left),
                        !.dimensions.border.right = length_to_px(box, u.border_right),
                        !.dimensions.margin.left = length_to_px(box, u.margin_left),
                        !.dimensions.margin.right = length_to_px(box, u.margin_right)]
    IN  assign(used_widths(box, containing))

calculate_block_position_no_stack(box, containing) ==
    LET style == get_style_node(box)
        place(d1) ==
            [box EXCEPT !.dimensions =
                [d1 EXCEPT !.content.x = containing.content.x + d1.margin.left
                                         + d1.border.left + d1.padding.left,
                           !.content.y = containing.content.y
                                         + d1.margin.top + d1.border.top + d1.padding.top]]
    IN  place([box.dimensions EXCEPT
                 !.margin.top = length_to_px(box, lookup(style, "margin-top", "margin", zero)),
                 !.margin.bottom = length_to_px(box, lookup(style, "margin-bottom", "margin", zero)),
                 !.border.top = length_to_px(box, lookup(style, "border-width-top", "border-width", zero)),
                 !.border.bottom = length_to_px(box, lookup(style, "border-width-bottom", "border-width", zero)),
                 !.padding.top = length_to_px(box, lookup(style, "padding-top", "padding", zero)),
                 !.padding.bottom = length_to_px(box, lookup(style, "padding-bottom", "padding", zero))])

calculate_block_position(box, containing) ==
    LET style == get_style_node(box)
        place(d1) ==
            [box EXCEPT !.dimensions =
                [d1 EXCEPT !.content.x = containing.content.x + d1.margin.left
                                         + d1.border.left + d1.padding.left,
                           !.content.y = containing.content.height + containing.content.y
                                         + d1.margin.top + d1.border.top + d1.padding.top]]
    IN  place([box.dimensions EXCEPT
                 !.margin.top = length_to_px(box, lookup(style, "margin-top", "margin", zero)),
                 !.margin.bottom = length_to_px(box, lookup(style, "margin-bottom", "margin", zero)),
                 !.border.top = length_to_px(box, lookup(style, "border-width-top", "border-width", zero)),
                 !.border.bottom = length_to_px(box, lookup(style, "border-width-bottom", "border-width", zero)),
                 !.padding.top = length_to_px(box, lookup(style, "padding-top", "padding", zero)),
                 !.padding.bottom = length_to_px(box, lookup(style, "padding-bottom", "padding", zero))])

calculate_block_height(box) ==
    IF HasValue(get_style_node(box), "height")
    THEN [box EXCEPT !.dimensions.content.height =
                        length_to_px(box, get_style_node(box).props["height"])]
    ELSE box

debug_calculate_element_name(box) ==
    IF box.box_type \in {"BlockNode", "TableNode", "TableRowGroupNode",
                         "TableRowNode", "TableCellNode"}
       /\ box.node.kind = "element"
    THEN box.node.tag
    ELSE "non-element"

\* The RenderBlockBox built at the end of layout_block (lines 338-353).
render_block_box(box, children) ==
    LET style == get_style_node(box) IN
    [kind |-> "Block",
     title |-> debug_calculate_element_name(box),
     rect |-> box.dimensions.content,
     margin |-> box.dimensions.margin,
     padding |-> box.dimensions.padding,
     border_width |->
        MkEdges(length_to_px(box, lookup(style, "border-width-top", "border-width", zero)),
                length_to_px(box, lookup(style, "border-width-bottom", "border-width", zero)),
                length_to_px(box, lookup(style, "border-width-top", "border-width", zero)),
                length_to_px(box, lookup(style, "border-width-bottom", "border-width", zero))),
     valign |-> "baseline",
     children |-> children]

render_table_row_box_without_cells(box, children) ==
    [kind |-> "Block",
     title |-> debug_calculate_element_name(box),
     rect |-> box.dimensions.content,
     margin |-> box.dimensions.margin,
     padding |-> box.dimensions.padding,
     border_width |-> DefaultEdgeSizes,
     valign |-> "baseline",
     children |-> <<>>]

\* The RenderBlockBox built at the end of layout_table_row (lines 403-418).
render_table_row_box(box, children) ==
    LET style == get_style_node(box) IN
    [kind |-> "Block",
     title |-> debug_calculate_element_name(box),
     rect |-> box.dimensions.content,
     margin |-> box.dimensions.margin,
     padding |-> box.dimensions.padding,
     border_width |->
        MkEdges(length_to_px(box, lookup(style, "border-top", "border-width", zero)),
                length_to_px(box, lookup(style, "border-bottom", "border-width", zero)),
                length_to_px(box, lookup(style, "border-top", "border-width", zero)),
                length_to_px(box, lookup(style, "border-bottom", "border-width", zero))),
     valign |-> "baseline",
     children |-> children]


(***************************************************************************)
(* The Looper: the cursor state of the inline formatter.                   *)
(***************************************************************************)
MkLine(rect) == [rect |-> rect, baseline |-> 0, children |-> <<>>]

start_new_line_keep_start(looper) ==
    [looper EXCEPT
        !.lines = Append(@, looper.current),
        !.current = MkLine(MkRect(looper.extents.x, looper.current_bottom,
                                  looper.extents.width, 0)),
        !.current_end = looper.extents.x]

start_new_line(looper) ==
    [looper EXCEPT
        !.lines = Append(@, looper.current),
        !.current = MkLine(MkRect(looper.extents.x, looper.current_bottom,
                                  looper.extents.width, 0)),
        !.current_start = looper.extents.x,
        !.current_end = looper.extents.x]

add_box_to_current_line_last_height(looper, bx) ==
    [looper EXCEPT
        !.current.rect.height = bx.rect.height,
        !.current.children = Append(@, bx),
        !.current_start = looper.current_end]

add_box_to_current_line(looper, bx) ==
    [looper EXCEPT
        !.current.rect.height = Max(@, bx.rect.height),
        !.current.children = Append(@, bx),
        !.current_start = looper.current_end]

aligned_y_sub_as_baseline(line, ch) ==
    CASE ch.valign = "bottom" -> line.rect.y + line.rect.height - ch.rect.height
      [] ch.valign = "sub" -> line.rect.y + line.rect.height - ch.rect.height - 10
      [] ch.valign = "baseline" -> line.rect.y + line.rect.height - ch.rect.height - 10
      [] ch.valign = "super" -> line.rect.y + line.rect.height - ch.rect.height - 10 - 10
      [] ch.valign = "middle" -> line.rect.y + (line.rect.height - ch.rect.height) \div 2
      [] ch.valign = "top" -> line.rect.y
      [] OTHER -> ch.rect.y

aligned_y_middle_unhalved(line, ch) ==
    CASE ch.valign = "bottom" -> line.rect.y + line.rect.height - ch.rect.height
      [] ch.valign = "sub" -> line.rect.y + line.rect.height - ch.rect.height - 10 + 10
      [] ch.valign = "baseline" -> line.rect.y + line.rect.height - ch.rect.height - 10
      [] ch.valign = "super" -> line.rect.y + line.rect.height - ch.rect.height - 10 - 10
      [] ch.valign = "middle" -> line.rect.y + (line.rect.height - ch.rect.height)
      [] ch.valign = "top" -> line.rect.y
      [] OTHER -> ch.rect.y

\* The y a fragment gets from its vertical-align keyword (lines 926-946).
aligned_y(line, ch) ==
    CASE ch.valign = "bottom" -> line.rect.y + line.rect.height - ch.rect.height
      [] ch.valign = "sub" -> line.rect.y + line.rect.height - ch.rect.height - 10 + 10
      [] ch.valign = "baseline" -> line.rect.y + line.rect.height - ch.rect.height - 10
      [] ch.valign = "super" -> line.rect.y + line.rect.height - ch.rect.height - 10 - 10
      [] ch.valign = "middle" -> line.rect.y + (line.rect.height - ch.rect.height) \div 2
      [] ch.valign = "top" -> line.rect.y
      [] OTHER -> ch.rect.y

adjust_current_line_vertical(looper) ==
    LET chs == looper.current.children IN
    [looper EXCEPT !.current.children =
        [i \in 1..Len(chs) |-> [chs[i] EXCEPT !.rect.y = aligned_y(looper.current, chs[i])]]]

(***************************************************************************)
(* Text measuring and font lookup.                                         *)
(***************************************************************************)
RECURSIVE SumSeq(_)
SumSeq(s) == IF s = <<>> THEN 0 ELSE Head(s) + SumSeq(Tail(s))

\* glyph_bounds(...).max.x of a text: the widths of its words are inputs.
calculate_word_length(words) == SumSeq(words)

\* The families install_standard_fonts registers (src/src/app.rs, 36-45).
FontFamilies == {"sans-serif", "monospace"}

has_font_family(name) == name \in FontFamilies

RECURSIVE first_known_family(_, _)
first_known_family(vals, i) ==
    IF i > Len(vals) THEN "sans-serif"
    ELSE IF vals[i].t \in {"str", "kw"} /\ has_font_family(vals[i].s)
         THEN vals[i].s
         ELSE first_known_family(vals, i + 1)

find_font_family(looper) ==
    LET v == lookup(looper.style_node, "font-family", "font-family", Keyword("sans-serif")) IN
    CASE v.t = "arr" -> first_known_family(v.items, 1)
      [] v.t = "kw" -> v.s
      [] OTHER -> "sans-serif"

lookup_font_weight(node, default) ==
    IF ~HasValue(node, "font-weight") THEN default
    ELSE LET v == node.props["font-weight"] IN
         CASE v.t = "kw" /\ v.s = "bold" -> 700
           [] v.t = "kw" /\ v.s = "normal" -> 400
           [] v.t = "len" -> v.v
           [] OTHER -> default

lookup_color(node, name, default) ==
    IF HasValue(node, name) /\ node.props[name].t = "kw"
    THEN node.props[name].s
    ELSE default

NoLink == [some |-> FALSE, val |-> ""]

SomeLink(s) == [some |-> TRUE, val |-> s]

(***************************************************************************)
(* Inline text (do_inline).                                                *)
(***************************************************************************)
\* The link do_inline captures (lines 625-637).
link_of(looper) ==
    LET n == looper.style_node IN
    IF n.kind = "element" /\ n.tag = "a" /\ "href" \in DOMAIN n.attrs
    THEN SomeLink(n.attrs["href"])
    ELSE NoLink

\* The RenderTextBox of the current run (lines 663-678 and 694-709).
text_box(looper, curr_text) ==
    LET font_size == lookup_length_px(looper.style_node, "font-size", 10) IN
    [kind |-> "Text",
     rect |-> MkRect(looper.current_start, looper.current_bottom,
                     looper.current_end - looper.current_start, font_size * 2),
     text |-> curr_text,
     color |-> lookup_color(looper.style_node, "color", "black"),
     font_size |-> font_size,
     font_family |-> find_font_family(looper),
     link |-> link_of(looper),
     font_weight |-> lookup_font_weight(looper.style_node, 400),
     font_style |-> lookup_string(looper.style_node, "font-style", "normal"),
     valign |-> lookup_string(looper.style_node, "vertical-align", "baseline")]

needs_wrap_never(looper, w) == FALSE

\* The wrap test of lines 660 and 614.
needs_wrap(looper, w) == looper.current_end + w > looper.extents.width

do_word_losing_wrapped_word(st, word) ==
    LET wrap(l1, w) ==
            [looper |->
                [start_new_line(adjust_current_line_vertical(
                    [l1 EXCEPT !.current_bottom = @ + l1.current.rect.height,
                               !.extents.height = @ + l1.current.rect.height]))
                 EXCEPT !.current_end = @ + w],
             curr_text |-> <<>>]
        place(w) ==
            IF st.looper.current_end + w > st.looper.extents.width
            THEN wrap(add_box_to_current_line(st.looper, text_box(st.looper, st.curr_text)), w)
            ELSE [looper |-> [st.looper EXCEPT !.current_end = @ + w],
                  curr_text |-> st.curr_text \o <<0, word>>]
    IN  place(calculate_word_length(<<word>>))

\* One word of the loop of lines 655-693: the looper and the run text after it.
\* In a text, 0 is the space character and w > 0 the word of width w.
do_word(st, word) ==
    LET wrap(l1, w) ==
            [looper |->
                [start_new_line(adjust_current_line_vertical(
                    [l1 EXCEPT !.current_bottom = @ + l1.current.rect.height,
                               !.extents.height = @ + l1.current.rect.height]))
                 EXCEPT !.current_end = @ + w],
             curr_text |-> <<0, word, 0>>]
        place(w) ==
            IF needs_wrap(st.looper, w)
            THEN wrap(add_box_to_current_line(st.looper, text_box(st.looper, st.curr_text)), w)
            ELSE [looper |-> [st.looper EXCEPT !.current_end = @ + w],
                  curr_text |-> st.curr_text \o <<0, word>>]
    IN  place(calculate_word_length(<<word>>))

RECURSIVE do_words_from(_, _, _)
do_words_from(st, words, i) ==
    IF i > Len(words) THEN st
    ELSE do_words_from(do_word(st, words[i]), words, i + 1)

RECURSIVE do_inline(_, _)
RECURSIVE do_inline_children_from(_, _, _)

do_inline_children_from(box, looper, i) ==
    IF i > Len(box.children) THEN looper
    ELSE do_inline_children_from(box, do_inline(box.children[i], looper), i + 1)

do_inline(box, looper) ==
    LET flush(st) == add_box_to_current_line(st.looper, text_box(st.looper, st.curr_text)) IN
    IF box.box_type # "InlineNode" THEN looper
    ELSE IF box.node.kind = "text"
         THEN flush(do_words_from([looper |-> looper, curr_text |-> <<>>],
                                  box.node.words, 1))
         ELSE do_inline_children_from(box, looper, 1)

(***************************************************************************)
(* Layout dispatch, blocks, table rows, anonymous blocks, inline blocks.   *)
(* Every layout operator returns [box |-> the LayoutBox as the call leaves *)
(* it, render |-> what the call returns].  A panic is carried as a marker  *)
(* in the render tree and turned into the abort by the Layout action.      *)
(***************************************************************************)
PanicFragment == [kind |-> "Panic", rect |-> DefaultRect, valign |-> "-"]

RECURSIVE layout(_, _)
RECURSIVE layout_block(_, _)
RECURSIVE layout_block_children_from(_, _, _)
RECURSIVE layout_table_row(_, _)
RECURSIVE layout_table_cells_from(_, _, _, _)
RECURSIVE layout_anonymous_2(_, _)
RECURSIVE layout_inline_children_from(_, _, _)
RECURSIVE do_inline_block(_, _)

\* The loop of layout_block_children: st is [box, renders].
layout_block_children_from(box, renders, i) ==
    LET step(r) ==
            layout_block_children_from(
                [box EXCEPT !.children[i] = r.box,
                            !.dimensions.content.height =
                                @ + margin_box(r.box.dimensions).height],
                Append(renders, r.render), i + 1)
    IN  IF i > Len(box.children) THEN [box |-> box, renders |-> renders]
        ELSE step(layout(box.children[i], box.dimensions))

layout_block_children(box) == layout_block_children_from(box, <<>>, 1)

layout_block(box, containing_block) ==
    LET finish(b, renders) == [box |-> b, render |-> render_block_box(b, renders)]
        children_done(r) == finish(calculate_block_height(r.box), r.renders)
    IN  children_done(layout_block_children(
            calculate_block_position(calculate_block_width(box, containing_block),
                                     containing_block)))

CountCells(box) ==
    Cardinality({i \in 1..Len(box.children) : box.children[i].box_type = "TableCellNode"})

\* The second loop of layout_table_row (lines 375-400); index is i - 1.
layout_table_cells_from(box, renders, i, child_width) ==
    LET step(r) ==
            layout_table_cells_from([box EXCEPT !.children[i] = r.box],
                                    Append(renders, r.render), i + 1, child_width)
    IN  IF i > Len(box.children) THEN [box |-> box, renders |-> renders]
        ELSE IF box.children[i].box_type = "TableCellNode"
             THEN step(layout(box.children[i],
                              [DefaultDimensions EXCEPT !.content =
                                  MkRect(box.dimensions.content.x + child_width * (i - 1),
                                         box.dimensions.content.y, child_width, 0)]))
             ELSE layout_table_cells_from(box, renders, i + 1, child_width)

layout_table_row(box, cb) ==
    LET finish(r) == [box |-> r.box, render |-> render_table_row_box(r.box, r.renders)]
        cells(b, count) ==
            finish(layout_table_cells_from(
                       b, <<>>, 1,
                       IF count = 0 THEN 0 ELSE b.dimensions.content.width \div count))
        sized(b) == cells(b, CountCells(b))
    IN  sized([calculate_block_position(calculate_block_width(box, cb), cb)
                 EXCEPT !.dimensions.content.height = 50])

\* What load_image answers for the element's src.
load_image(node) == node.img

\* The image branch of do_inline_block (lines 587-621).
place_image(box, looper, image_size) ==
    LET image == load_image(box.node)
        valign == lookup_string(get_style_node(box), "vertical-align", "baseline")
        bx == IF image.ok
              THEN [kind |-> "Image",
                    rect |-> MkRect(looper.current_start, looper.current.rect.y,
                                    image.width, image.height),
                    valign |-> valign]
              ELSE [kind |-> "Error",
                    rect |-> MkRect(looper.current_start, looper.current.rect.y,
                                    image_size.width, image_size.height),
                    valign |-> valign]
    IN  IF needs_wrap(looper, image_size.width)
        THEN add_box_to_current_line(
                 start_new_line(adjust_current_line_vertical(looper)), bx)
        ELSE add_box_to_current_line(
                 [looper EXCEPT !.current_end = @ + image_size.width], bx)

\* The button branch of do_inline_block (lines 545-579).
place_button(box, looper) ==
    LET styled_node == box.node
        placed(l1, r) ==
            [box |-> r.box,
             looper |-> add_box_to_current_line(
                            l1,
                            [r.render EXCEPT
                                !.rect.x = l1.current_start,
                                !.rect.y = l1.current.rect.y,
                                !.valign = lookup_string(get_style_node(box),
                                                         "vertical-align", "baseline")])]
    IN  IF Len(styled_node.children) = 0 \/ styled_node.children[1].kind # "text"
        THEN [box |-> box, looper |-> add_box_to_current_line(looper, PanicFragment)]
        ELSE placed([looper EXCEPT !.current_end =
                        @ + calculate_word_length(styled_node.children[1].words)],
                    layout_block(box, [DefaultDimensions EXCEPT
                                          !.content = MkRect(0, 0, 50, 0)]))

AttrOr(node, name, default) ==
    IF name \in DOMAIN node.attrs THEN node.attrs[name] ELSE default

\* An attribute value below 0 stands for text that parse::<u32>() rejects.
do_inline_block(box, looper) ==
    IF box.box_type = "InlineBlockNode" /\ box.node.kind = "element"
    THEN CASE box.node.tag = "img" ->
                IF AttrOr(box.node, "width", 100) < 0
                   \/ AttrOr(box.node, "height", 100) < 0
                   \/ "src" \notin DOMAIN box.node.attrs
                THEN [box |-> box, looper |-> add_box_to_current_line(looper, PanicFragment)]
                ELSE [box |-> box,
                      looper |-> place_image(box, looper,
                                             MkRect(0, 0, AttrOr(box.node, "width", 100),
                                                    AttrOr(box.node, "height", 100)))]
           [] box.node.tag = "button" -> place_button(box, looper)
           [] OTHER ->
                [box |-> box, looper |-> add_box_to_current_line(looper, PanicFragment)]
    ELSE [box |-> box, looper |-> place_image(box, looper, MkRect(0, 0, 30, 30))]

\* The loop of layout_anonymous_2 over the children (lines 493-502).
layout_inline_children_from(box, looper, i) ==
    LET step(r) ==
            layout_inline_children_from([box EXCEPT !.children[i] = r.box],
                                        r.looper, i + 1)
    IN  IF i > Len(box.children) THEN [box |-> box, looper |-> looper]
        ELSE CASE box.children[i].box_type = "InlineBlockNode" ->
                    step(do_inline_block(box.children[i], looper))
               [] box.children[i].box_type = "InlineNode" ->
                    layout_inline_children_from(box, do_inline(box.children[i], looper), i + 1)
               [] OTHER -> layout_inline_children_from(box, looper, i + 1)

new_looper(box, dim) ==
    [lines |-> <<>>,
     current |-> MkLine(MkRect(dim.content.x, dim.content.y + dim.content.height,
                               dim.content.width, 0)),
     extents |-> MkRect(dim.content.x, dim.content.y + dim.content.height,
                        dim.content.width, 0),
     current_start |-> dim.content.x,
     current_end |-> dim.content.x,
     current_bottom |-> dim.content.y + dim.content.height,
     style_node |-> get_style_node(box)]

layout_anonymous_2(box, dim) ==
    LET finish(b, l2) ==
            [box |-> [b EXCEPT !.dimensions.content.y = l2.extents.y,
                               !.dimensions.content.width = l2.extents.width,
                               !.dimensions.content.height = l2.current_bottom - l2.extents.y],
             render |-> [kind |-> "Anonymous", rect |-> l2.extents, children |-> l2.lines]]
        close(b, l1) ==
            finish(b, [l1 EXCEPT !.current_bottom = @ + l1.current.rect.height,
                                 !.extents.height = @ + l1.current.rect.height,
                                 !.lines = Append(@, l1.current)])
        children_done(r) == close(r.box, adjust_current_line_vertical(r.looper))
    IN  children_done(layout_inline_children_from(box, new_looper(box, dim), 1))

layout(box, containing) ==
    CASE box.box_type \in {"BlockNode", "TableNode", "TableRowGroupNode"} ->
            layout_block(box, containing)
      [] box.box_type = "TableRowNode" -> layout_table_row(box, containing)
      [] box.box_type \in {"TableCellNode", "AnonymousBlock"} ->
            layout_anonymous_2(box, containing)
      [] box.box_type = "InlineNode" -> [box |-> box, render |-> [kind |-> "Inline"]]
      [] OTHER -> [box |-> box, render |-> [kind |-> "InlineBlock"]]

(***************************************************************************)
(* Hit testing.  A QueryResult::Text(&box) is a reference: the result      *)
(* carries the path of the box in the render tree (child indices from the  *)
(* root; in an anonymous box, line index then fragment index).             *)
(***************************************************************************)
NoHit == [kind |-> "None", path |-> <<>>, rect |-> DefaultRect, link |-> NoLink]

TextHit(path, bx) ==
    [kind |-> "Text", path |-> path, rect |-> bx.rect, link |-> bx.link]

is_none(res) == res.kind = "None"

text_find_box_containing(bx, path, x, y) ==
    IF contains(bx.rect, x, y) THEN TextHit(path, bx) ELSE NoHit

RECURSIVE line_find_from_last(_, _, _, _, _)
line_find_from_last(line, path, x, y, i) ==
    IF i > Len(line.children) THEN NoHit
    ELSE LET later == line_find_from_last(line, path, x, y, i + 1) IN
         IF ~is_none(later) THEN later
         ELSE IF line.children[i].kind = "Text"
              THEN text_find_box_containing(line.children[i], Append(path, i), x, y)
              ELSE NoHit

RECURSIVE line_find_from(_, _, _, _, _)
line_find_from(line, path, x, y, i) ==
    IF i > Len(line.children) THEN NoHit
    ELSE LET res == IF line.children[i].kind = "Text"
                    THEN text_find_box_containing(line.children[i], Append(path, i), x, y)
                    ELSE NoHit
         IN  IF ~is_none(res) THEN res ELSE line_find_from(line, path, x, y, i + 1)

line_find_box_containing(line, path, x, y) == line_find_from(line, path, x, y, 1)

RECURSIVE find_box_containing(_, _, _, _)
RECURSIVE children_find_from(_, _, _, _, _)

\* The loops of RenderBlockBox / RenderAnonymousBox::find_box_containing.
children_find_from(bx, path, x, y, i) ==
    IF i > Len(bx.children) THEN NoHit
    ELSE LET res == IF bx.kind = "Block"
                    THEN find_box_containing(bx.children[i], Append(path, i), x, y)
                    ELSE line_find_box_containing(bx.children[i], Append(path, i), x, y)
         IN  IF ~is_none(res) THEN res ELSE children_find_from(bx, path, x, y, i + 1)

find_box_containing(bx, path, x, y) ==
    IF bx.kind \in {"Block", "Anonymous"}
    THEN children_find_from(bx, path, x, y, 1)
    ELSE NoHit

(***************************************************************************)
(* Walks over the trees, used to state the properties.                     *)
(***************************************************************************)
RECURSIVE Flatten(_)
Flatten(ss) == IF ss = <<>> THEN <<>> ELSE Head(ss) \o Flatten(Tail(ss))

Range(s) == {s[i] : i \in 1..Len(s)}

\* Every LayoutBox of a tree, in pre-order.
RECURSIVE Boxes(_)
Boxes(box) ==
    <<box>> \o Flatten([i \in 1..Len(box.children) |-> Boxes(box.children[i])])

\* Every RenderBox of a render tree, in pre-order, those of inline-block
\* fragments included.
RECURSIVE RenderBoxes(_)
RECURSIVE FragmentRenderBoxes(_)
RenderBoxes(bx) ==
    CASE bx.kind = "Block" ->
            <<bx>> \o Flatten([i \in 1..Len(bx.children) |-> RenderBoxes(bx.children[i])])
      [] bx.kind = "Anonymous" ->
            <<bx>> \o Flatten([i \in 1..Len(bx.children) |->
                        Flatten([k \in 1..Len(bx.children[i].children) |->
                                    FragmentRenderBoxes(bx.children[i].children[k])])])
      [] OTHER -> <<bx>>

FragmentRenderBoxes(fr) ==
    IF fr.kind = "Block"
    THEN Flatten([i \in 1..Len(fr.children) |-> RenderBoxes(fr.children[i])])
    ELSE <<>>

\* Every line box of a render tree.
Lines(bx) ==
    LET anon == RenderBoxes(bx) IN
    Flatten([i \in 1..Len(anon) |->
                IF anon[i].kind = "Anonymous" THEN anon[i].children ELSE <<>>])

\* Every fragment of a render tree with its path, in pre-order:
\* [path, frag, nested], nested when it lies inside an inline-block fragment.
RECURSIVE Fragments(_, _, _)
Fragments(bx, path, nested) ==
    CASE bx.kind = "Block" ->
            Flatten([i \in 1..Len(bx.children) |->
                        Fragments(bx.children[i], Append(path, i), nested)])
      [] bx.kind = "Anonymous" ->
            Flatten([i \in 1..Len(bx.children) |->
                Flatten([k \in 1..Len(bx.children[i].children) |->
                    LET fr == bx.children[i].children[k]
                        p == path \o <<i, k>>
                    IN  <<[path |-> p, frag |-> fr, nested |-> nested]>>
                        \o (IF fr.kind = "Block"
                            THEN Flatten([c \in 1..Len(fr.children) |->
                                     Fragments(fr.children[c], Append(p, c), TRUE)])
                            ELSE <<>>)])])
      [] OTHER -> <<>>

TextFragments(bx) ==
    SelectSeq(Fragments(bx, <<>>, FALSE), LAMBDA f : f.frag.kind = "Text")

HasPanic(bx) ==
    \E f \in Range(Fragments(bx, <<>>, FALSE)) : f.frag.kind = "Panic"

(***************************************************************************)
(* The documents tried.                                                    *)
(***************************************************************************)
ViewportWidths == {120 * k : k \in 1..MaxViewports}

Viewport(x, y, w) == [DefaultDimensions EXCEPT !.content = MkRect(x, y, w, 0)]

NoAttrs == NoProps

Div(props, children) == Element("div", "block", props, NoAttrs, children)

\* Width family: one box whose horizontal declarations take every shape
\* calculate_block_width tells apart, alone or inside a padded block.
WidthOpts ==
    {NoProps, "width" :> auto, "width" :> Px(40), "width" :> Px(400),
     "width" :> Length(50, "per"), "width" :> Length(2, "em"),
     ("width" :> Length(2, "em")) @@ ("font-size" :> Px(20))}

MarginOpts ==
    {NoProps, "margin" :> Px(10), "margin" :> auto,
     "margin-left" :> auto, "margin-right" :> auto,
     ("margin-left" :> auto) @@ ("margin-right" :> auto),
     ("margin-left" :> Px(20)) @@ ("margin" :> Px(10))}

PaddingOpts ==
    {NoProps, "padding" :> Px(10), "padding" :> Px(70),
     ("padding-left" :> Px(6)) @@ ("padding" :> Px(10))}

BorderOpts ==
    {NoProps, "border-width" :> Px(4), "border-width-left" :> Px(2),
     ("border-width-left" :> Px(2)) @@ ("border-width-top" :> Px(8))}

WidthDisplays == {"block", "table", "table-row-group", "table-row"}

WidthBoxes ==
    {Element("div", d, w @@ m @@ p @@ b, NoAttrs, <<>>) :
        d \in WidthDisplays, w \in WidthOpts, m \in MarginOpts,
        p \in PaddingOpts, b \in BorderOpts}

WidthFamily ==
    WidthBoxes \cup {Div("padding" :> Px(10), <<bx>>) : bx \in WidthBoxes}

(***************************************************************************)
(* The state machine.                                                      *)
(***************************************************************************)
\* main's locals before the first frame (lines 94-97); left_started and
\* right_started count what the press that is still held has started.
NewWindow(start_page) ==
    [start_page |-> start_page, prev_w |-> 100,
     prev_left_down |-> FALSE, prev_right_down |-> FALSE,
     frames |-> 0, left_started |-> 0, right_started |-> 0]

InitWith(family, viewports) ==
    /\ styled \in family
    /\ viewport \in viewports
    /\ pc = "init"
    /\ layout_root = NoBox
    /\ render_root = NoRender
    /\ query = [x |-> 0, y |-> 0]
    /\ hit = NoHit
    /\ window = NewWindow("")

\* build_layout_tree on the root; display none on the root panics.
BuildLayoutTree ==
    /\ pc = "init"
    /\ LET returned(t) ==
               IF t.box_type = "Panic"
               THEN pc' = "build_panicked" /\ layout_root' = NoBox
               ELSE pc' = "built" /\ layout_root' = t
       IN  returned(build_layout_tree(styled))
    /\ UNCHANGED <<styled, viewport, render_root, query, hit, window>>

\* root_box.layout(&mut viewport, ...): the whole recursive layout, or the abort.
Layout ==
    /\ pc = "built"
    /\ LET returned(r) ==
               IF HasPanic(r.render)
               THEN pc' = "layout_panicked" /\ UNCHANGED <<layout_root, render_root>>
               ELSE pc' = "laid" /\ layout_root' = r.box /\ render_root' = r.render
       IN  returned(layout(layout_root, viewport))
    /\ UNCHANGED <<styled, viewport, query, hit, window>>

GridCoords == {10 * k - 10 : k \in 0..MaxGrid}

\* render_root.find_box_containing(x, y)
FindBoxContaining ==
    /\ pc = "laid"
    /\ \E x \in GridCoords, y \in GridCoords :
          /\ query' = [x |-> x, y |-> y]
          /\ hit' = find_box_containing(render_root, <<>>, x, y)
    /\ pc' = "queried"
    /\ UNCHANGED <<styled, viewport, layout_root, render_root, window>>

NextLayout == BuildLayoutTree \/ Layout

Next == BuildLayoutTree \/ Layout \/ FindBoxContaining

InitWidth == InitWith(WidthFamily, {Viewport(0, 0, w) : w \in ViewportWidths})

SpecWidth == InitWidth /\ [][NextLayout]_vars

(***************************************************************************)
(* Which boxes a layout call reaches, and with which containing block.     *)
(***************************************************************************)
BlockFormatted == {"BlockNode", "TableNode", "TableRowGroupNode"}

IsButton(box) ==
    box.box_type = "InlineBlockNode" /\ box.node.kind = "element" /\ box.node.tag = "button"

\* [box, cb, parent]: every box that layout() (or, for a button, layout_block)
\* is called on below and including box, with the content rectangle of its
\* containing block, in pre-order; parent is the box type of the caller.
RECURSIVE Reached(_, _, _)
Reached(box, cb, parent) ==
    <<[box |-> box, cb |-> cb, parent |-> parent]>> \o
    (CASE box.box_type \in BlockFormatted \/ IsButton(box) ->
            Flatten([i \in 1..Len(box.children) |->
                Reached(box.children[i], box.dimensions.content, box.box_type)])
       [] box.box_type \in {"AnonymousBlock", "TableCellNode"} ->
            Flatten([i \in 1..Len(box.children) |->
                IF IsButton(box.children[i])
                THEN Reached(box.children[i], MkRect(0, 0, 50, 0), box.box_type)
                ELSE <<>>])
       [] box.box_type = "TableRowNode" ->
            Flatten([i \in 1..Len(box.children) |->
                IF box.children[i].box_type = "TableCellNode"
                THEN Reached(box.children[i], box.dimensions.content, box.box_type)
                ELSE <<>>])
       [] OTHER -> <<>>)

ReachedBoxes == Reached(layout_root, viewport.content, "None")

HorizontalSum(d) ==
    d.margin.left + d.border.left + d.padding.left + d.content.width
    + d.padding.right + d.border.right + d.margin.right

WidthResolved(box) ==
    box.box_type \in {"BlockNode", "TableNode", "TableRowGroupNode", "TableRowNode"}

(***************************************************************************)
(* C1: after layout, for every Block, Table, TableRowGroup and TableRow    *)
(* box, margin.left + border.left + padding.left + content.width +         *)
(* padding.right + border.right + margin.right equals the content width of *)
(* its containing block, for auto and fixed widths and margins and also    *)
(* when the fixed contributions exceed the container.                      *)
(***************************************************************************)
C1_WidthsFillContainer ==
    pc = "laid" =>
        \A r \in Range(ReachedBoxes) :
            WidthResolved(r.box) => HorizontalSum(r.box.dimensions) = r.cb.width

\* A fixed width wider than the container with an auto left margin: the
\* right margin has gone negative.
C1_Witness ==
    /\ pc = "laid"
    /\ \E r \in Range(ReachedBoxes) :
          /\ WidthResolved(r.box)
          /\ lookup(r.box.node, "margin-left", "margin", zero) = auto
          /\ HasValue(r.box.node, "width")
          /\ r.box.dimensions.content.width > r.cb.width
          /\ r.box.dimensions.margin.right < 0

(***************************************************************************)
(* C8: a block box with auto width whose left margin, left padding and     *)
(* left border width are declared as px lengths (side-specific property    *)
(* or, failing that, the shorthand) emits a RenderBlockBox whose           *)
(* margin.left, padding.left and border_width.left are the declared        *)
(* values.  Stated for the root box.                                       *)
(***************************************************************************)
IsPx(v) == v.t = "len" /\ v.u = "px"

C8_InsetsAsDeclared ==
    LET n == styled
        ml == lookup(n, "margin-left", "margin", auto)
        pl == lookup(n, "padding-left", "padding", auto)
        bl == lookup(n, "border-width-left", "border-width", auto)
    IN  (/\ pc = "laid"
         /\ layout_root.box_type = "BlockNode"
         /\ ~HasValue(n, "width")
         /\ IsPx(ml) /\ IsPx(pl) /\ IsPx(bl))
        => /\ render_root.margin.left = ml.v
           /\ render_root.padding.left = pl.v
           /\ render_root.border_width.left = bl.v

(***************************************************************************)
(* Flow family: a root of any display over every short sequence of         *)
(* children drawn from one subtree of each kind.                           *)
(***************************************************************************)
RECURSIVE SeqsUpTo(_, _)
SeqsUpTo(S, n) ==
    IF n = 0 THEN {<<>>}
    ELSE LET shorter == SeqsUpTo(S, n - 1) IN
         shorter \cup {Append(q, e) : q \in {r \in shorter : Len(r) = n - 1}, e \in S}

Anchor(children) ==
    Element("a", "inline", "color" :> Keyword("blue"), "href" :> "x.html", children)

Img(w, h) ==
    Element("img", "inline-block", NoProps,
            ("width" :> w) @@ ("height" :> h) @@ ("src" :> "missing.png"), <<>>)

Button(props, children) == Element("button", "inline-block", props, NoAttrs, children)

Td(children) == Element("td", "table-cell", NoProps, NoAttrs, children)

Tr(props, children) == Element("tr", "table-row", props, NoAttrs, children)

FlowItems ==
    {Text(<<20, 30>>),
     Anchor(<<Text(<<40>>)>>),
     Img(40, 30),
     Button(NoProps, <<Text(<<30>>)>>),
     Div(("height" :> Px(30)) @@ ("margin" :> Px(10)), <<>>),
     Div(("padding" :> Px(4)) @@ ("border-width" :> Px(2)),
         <<Text(<<20>>), Div("margin-top" :> Px(6), <<Text(<<30, 30>>)>>), Text(<<50>>)>>),
     Element("span", "none", NoProps, NoAttrs, <<Text(<<20>>), Div(NoProps, <<>>)>>),
     Element("table", "table", NoProps, NoAttrs,
             <<Element("tbody", "table-row-group", NoProps, NoAttrs,
                       <<Tr(NoProps, <<Td(<<Text(<<20>>)>>), Td(<<Text(<<30>>)>>)>>),
                         Tr("margin" :> Px(2), <<Td(<<Img(40, 30)>>)>>)>>)>>),
     Tr(NoProps, <<Td(<<Text(<<20>>)>>), Text(<<30>>), Div(NoProps, <<>>), Td(<<>>)>>),
     Td(<<Text(<<20>>), Anchor(<<Text(<<30>>)>>)>>),
     Element("span", "inline", NoProps, NoAttrs,
             <<Div(NoProps, <<Text(<<20>>)>>), Text(<<30>>)>>)}

FlowRootDisplays ==
    {"block", "table", "table-row-group", "table-row", "table-cell", "inline", "none"}

FlowFamily ==
    {Element("body", d, "padding" :> Px(10), NoAttrs, ch) :
        d \in FlowRootDisplays, ch \in SeqsUpTo(FlowItems, MaxChildren)}

InitFlow == InitWith(FlowFamily, {Viewport(0, 0, 200), Viewport(10, 20, 200)})

Spec == InitFlow /\ [][NextLayout]_vars

(***************************************************************************)
(* C2: the children c1..cn of a laid-out Block, Table or TableRowGroup     *)
(* box, whatever their kinds, are stacked: c1's margin box starts at the   *)
(* parent's content.y, each next margin box starts where the previous one  *)
(* ends, and the height the parent accumulates (its content.height, when   *)
(* no explicit height replaces it) is the sum of their margin-box heights. *)
(***************************************************************************)
RECURSIVE SumHeights(_, _)
SumHeights(children, n) ==
    IF n = 0 THEN 0
    ELSE SumHeights(children, n - 1) + margin_box(children[n].dimensions).height

C2_ChildrenStacked ==
    pc = "laid" =>
        \A r \in Range(ReachedBoxes) :
            r.box.box_type \in BlockFormatted =>
                LET ch == r.box.children IN
                /\ \A i \in 1..Len(ch) :
                      margin_box(ch[i].dimensions).y =
                          r.box.dimensions.content.y + SumHeights(ch, i - 1)
                /\ ~HasValue(r.box.node, "height") =>
                      r.box.dimensions.content.height = SumHeights(ch, Len(ch))

\* An anonymous block followed by a block with margins and another
\* anonymous block, all of non-zero height, under one parent.
C2_Witness ==
    /\ pc = "laid"
    /\ \E r \in Range(ReachedBoxes) :
          /\ r.box.box_type \in BlockFormatted
          /\ Len(r.box.children) >= 3
          /\ r.box.children[1].box_type = "AnonymousBlock"
          /\ r.box.children[2].box_type = "BlockNode"
          /\ r.box.children[2].dimensions.margin.top > 0
          /\ \A i \in 1..3 : margin_box(r.box.children[i].dimensions).height > 0

(***************************************************************************)
(* C7 as stated: every LayoutBox of the layout tree emits exactly one      *)
(* RenderBox, so the render tree holds as many RenderBox values as the     *)
(* layout tree holds LayoutBox nodes.                                      *)
(***************************************************************************)
C7_OneRenderBoxPerLayoutBox ==
    pc = "laid" => Len(RenderBoxes(render_root)) = Len(Boxes(layout_root))

RenderKindOf(box_type) ==
    CASE box_type \in BlockFormatted \cup {"TableRowNode"} -> "Block"
      [] box_type \in {"TableCellNode", "AnonymousBlock"} -> "Anonymous"
      [] box_type = "InlineNode" -> "Inline"
      [] OTHER -> "InlineBlock"

\* The boxes LayoutBox::layout is called on (a button inside a line is laid
\* out by layout_block directly and becomes a fragment, not a RenderBox).
LayoutCalls ==
    SelectSeq(ReachedBoxes,
              LAMBDA r : ~(IsButton(r.box) /\ r.parent \in {"AnonymousBlock", "TableCellNode"}))

(***************************************************************************)
(* C7 as amended: every LayoutBox that LayoutBox::layout is called on (the *)
(* root, each child of a Block, Table, TableRowGroup or button box, each   *)
(* TableCell child of a table row) emits exactly one RenderBox, of the     *)
(* variant of its type, in the same pre-order; inline children of          *)
(* anonymous blocks and cells and non-cell children of rows emit none.     *)
(***************************************************************************)
C7_OneRenderBoxPerLayoutCall ==
    pc = "laid" =>
        LET rs == RenderBoxes(render_root)
            bs == LayoutCalls
        IN  /\ Len(rs) = Len(bs)
            /\ \A i \in 1..Len(bs) : rs[i].kind = RenderKindOf(bs[i].box.box_type)
            /\ \A i \in 1..Len(bs) :
                  rs[i].kind = "Block" => rs[i].rect = bs[i].box.dimensions.content

\* A table row with a cell and a non-cell child next to inline content.
C7_Witness ==
    /\ pc = "laid"
    /\ Len(Boxes(layout_root)) > Len(RenderBoxes(render_root))
    /\ \E r \in Range(ReachedBoxes) :
          /\ r.box.box_type = "TableRowNode"
          /\ \E i, k \in 1..Len(r.box.children) :
                /\ r.box.children[i].box_type = "TableCellNode"
                /\ r.box.children[k].box_type = "BlockNode"

(***************************************************************************)
(* C10: build_layout_tree makes exactly one LayoutBox, of the BoxType of   *)
(* its display, for every styled node that is not display:none and has no  *)
(* display:none ancestor, none for the others, and panics exactly when the *)
(* root has display none.                                                  *)
(***************************************************************************)
RECURSIVE VisibleNodes(_)
VisibleNodes(node) ==
    <<node>> \o Flatten([i \in 1..Len(node.children) |->
                    IF display(node.children[i]) = "none" THEN <<>>
                    ELSE VisibleNodes(node.children[i])])

ElementBoxes(box) == SelectSeq(Boxes(box), LAMBDA b : b.box_type # "AnonymousBlock")

C10_OneBoxPerVisibleNode ==
    /\ pc # "init" => (pc = "build_panicked" <=> display(styled) = "none")
    /\ pc = "built" =>
          LET bs == ElementBoxes(layout_root) IN
          /\ [i \in 1..Len(bs) |-> bs[i].node] = VisibleNodes(styled)
          /\ \A i \in 1..Len(bs) :
                bs[i].box_type = BoxTypeOfDisplay(display(bs[i].node))

\* A tree built from a root with a display:none child that has children.
C10_Witness ==
    /\ pc = "built"
    /\ \E i \in 1..Len(styled.children) :
          /\ display(styled.children[i]) = "none"
          /\ Len(styled.children[i].children) > 0
    /\ Len(ElementBoxes(layout_root)) >= 3

(***************************************************************************)
(* Inline family: a block whose children are a text of up to MaxWords      *)
(* words, alone or next to one other inline item, under every              *)
(* vertical-align keyword, in inline contexts at x = 0 and x > 0.          *)
(***************************************************************************)
WordWidths == {20, 40, 130}

InlineTexts == {Text(ws) : ws \in SeqsUpTo(WordWidths, MaxWords)}

ImgLoaded(w, h, iw, ih) ==
    [Img(w, h) EXCEPT !.img = [ok |-> TRUE, width |-> iw, height |-> ih]]

InlineItems ==
    {[Img(40, 30) EXCEPT !.props = "vertical-align" :> Keyword("middle")],
     ImgLoaded(40, 30, 50, 50),
     [ImgLoaded(40, 30, 50, 50) EXCEPT !.props = "vertical-align" :> Keyword("text-top")],
     Button("height" :> Px(40), <<Text(<<30>>)>>),
     Anchor(<<Text(<<20>>)>>)}

InlineChildren ==
    {<<t>> : t \in InlineTexts}
    \cup {<<t, e>> : t \in InlineTexts, e \in InlineItems}
    \cup {<<e, t>> : t \in InlineTexts, e \in InlineItems}

ValignOpts ==
    {NoProps} \cup
    {"vertical-align" :> Keyword(k) :
        k \in {"top", "middle", "bottom", "sub", "super", "text-top"}}

InlineFamily ==
    {Element("div", d, va, NoAttrs, ch) :
        d \in {"block", "table-cell"}, va \in ValignOpts, ch \in InlineChildren}

InlineViewports ==
    {Viewport(0, 0, 60 * k) : k \in 1..MaxViewports} \cup {Viewport(30, 10, 60)}

InitInline == InitWith(InlineFamily, InlineViewports)

SpecInline == InitInline /\ [][NextLayout]_vars

RECURSIVE MaxHeight(_, _)
MaxHeight(frags, n) ==
    IF n = 0 THEN 0 ELSE Max(MaxHeight(frags, n - 1), frags[n].rect.height)

(***************************************************************************)
(* C3 as stated: the height of every line box is the maximum height of its *)
(* fragments, and after vertical alignment every fragment lies inside the  *)
(* line box vertically, for every vertical-align keyword, the default      *)
(* baseline included.                                                      *)
(***************************************************************************)
C3_FragmentsInsideLine ==
    pc = "laid" =>
        \A line \in Range(Lines(render_root)) :
            /\ line.rect.height = MaxHeight(line.children, Len(line.children))
            /\ \A f \in Range(line.children) :
                  /\ f.rect.y >= line.rect.y
                  /\ f.rect.y + f.rect.height <= line.rect.y + line.rect.height

(***************************************************************************)
(* C3 as amended: the height of every line box is the maximum height of    *)
(* its fragments; no fragment reaches below the line box; a fragment       *)
(* starts at or below the top of the line box for every keyword but        *)
(* baseline and super, which place it 10 and 20 above its bottom-aligned   *)
(* position, so that a fragment as tall as the line starts 10 (20) above   *)
(* the line box.                                                           *)
(***************************************************************************)
C3_LineHeightAndAlignment ==
    pc = "laid" =>
        \A line \in Range(Lines(render_root)) :
            /\ line.rect.height = MaxHeight(line.children, Len(line.children))
            /\ \A f \in Range(line.children) :
                  LET bottom_aligned == line.rect.y + line.rect.height - f.rect.height IN
                  /\ f.rect.y + f.rect.height <= line.rect.y + line.rect.height
                  /\ f.valign = "baseline" => f.rect.y = bottom_aligned - 10
                  /\ f.valign = "super" => f.rect.y = bottom_aligned - 20
                  /\ f.valign \notin {"baseline", "super"} => f.rect.y >= line.rect.y

\* A line whose fragments have different heights, one aligned by baseline
\* and one by another keyword.
C3_Witness ==
    /\ pc = "laid"
    /\ \E line \in Range(Lines(render_root)) :
          \E f, g \in Range(line.children) :
              /\ f.rect.height < g.rect.height
              /\ f.valign = "baseline" /\ g.valign = "middle"
              /\ f.rect.y >= line.rect.y

(***************************************************************************)
(* C4 as stated: in every anonymous box of width W, at any x and for any   *)
(* word widths, a word wider than W included, every text fragment has      *)
(* rect.x + rect.width <= anonymous.rect.x + W.                            *)
(***************************************************************************)
AnonymousBoxes(bx) == SelectSeq(RenderBoxes(bx), LAMBDA b : b.kind = "Anonymous")

TextsOfAnonymous(a) ==
    Flatten([i \in 1..Len(a.children) |->
                SelectSeq(a.children[i].children, LAMBDA f : f.kind = "Text")])

C4_NoTextOverflow ==
    pc = "laid" =>
        \A a \in Range(AnonymousBoxes(render_root)) :
            \A t \in Range(TextsOfAnonymous(a)) :
                t.rect.x + t.rect.width <= a.rect.x + a.rect.width

\* The words of the text nodes do_inline reaches below an inline box.
RECURSIVE InlineWords(_)
InlineWords(box) ==
    IF box.box_type # "InlineNode" THEN <<>>
    ELSE IF box.node.kind = "text" THEN box.node.words
         ELSE Flatten([i \in 1..Len(box.children) |-> InlineWords(box.children[i])])

WordsOfContext(box) ==
    Flatten([i \in 1..Len(box.children) |-> InlineWords(box.children[i])])

(***************************************************************************)
(* C4 as amended: in an anonymous box of width W >= 0 at x >= 0 whose      *)
(* inline content is text and images (no inline-block button) and whose    *)
(* words are each at most W wide, every text fragment has                  *)
(* rect.x + rect.width <= anonymous.rect.x + W.  (A word wider than W is   *)
(* put on a line of its own and overflows.)                                *)
(***************************************************************************)
C4_NoTextOverflowOfFittingWords ==
    pc = "laid" =>
        LET rs == RenderBoxes(render_root)
            bs == LayoutCalls
        IN  \A i \in 1..Len(rs) :
                (/\ rs[i].kind = "Anonymous"
                 /\ rs[i].rect.x >= 0 /\ rs[i].rect.width >= 0
                 /\ \A w \in Range(WordsOfContext(bs[i].box)) : w <= rs[i].rect.width
                 /\ \A c \in Range(bs[i].box.children) : ~IsButton(c))
                => \A t \in Range(TextsOfAnonymous(rs[i])) :
                       t.rect.x + t.rect.width <= rs[i].rect.x + rs[i].rect.width

\* Text of fitting words wrapped onto a second line in a context at x > 0,
\* next to an image.
C4_Witness ==
    /\ pc = "laid"
    /\ LET rs == RenderBoxes(render_root)
           bs == LayoutCalls
       IN  \E i \in 1..Len(rs) :
              /\ rs[i].kind = "Anonymous"
              /\ rs[i].rect.x > 0
              /\ Len(rs[i].children) >= 2
              /\ \A w \in Range(WordsOfContext(bs[i].box)) : w <= rs[i].rect.width
              /\ \A c \in Range(bs[i].box.children) : ~IsButton(c)
              /\ \E c \in Range(bs[i].box.children) : c.box_type = "InlineBlockNode"
              /\ \E t \in Range(TextsOfAnonymous(rs[i])) :
                    t.rect.width > 0 /\ t.rect.y > rs[i].rect.y

(***************************************************************************)
(* Hit-test families: a block of up to MaxChildren items holding text      *)
(* (adjacent runs, wrapped runs, runs in blocks and table cells, an empty  *)
(* run) and an image, laid out and then queried on the points of a grid    *)
(* that meets every rectangle edge.  The nested family adds a button whose *)
(* block child holds text.                                                 *)
(***************************************************************************)
HitItems ==
    {Text(<<20>>), Text(<<20, 30>>), Text(<<>>),
     Anchor(<<Text(<<10>>)>>),
     Img(20, 10),
     Div(NoProps, <<Text(<<30>>)>>),
     Tr(NoProps, <<Td(<<Text(<<10>>)>>), Td(<<Text(<<20>>)>>)>>)}

NestedItems ==
    {Button(NoProps, <<Text(<<10>>), Div(NoProps, <<Text(<<20>>)>>)>>),
     Text(<<20>>),
     Div(NoProps, <<Text(<<30>>)>>)}

HitFamily == {Div(NoProps, ch) : ch \in SeqsUpTo(HitItems, MaxChildren)}

NestedFamily == {Div(NoProps, ch) : ch \in SeqsUpTo(NestedItems, MaxChildren)}

HitViewports == {Viewport(0, 0, 40), Viewport(10, 10, 40)}

InitHit == InitWith(HitFamily, HitViewports)

SpecHit == InitHit /\ [][Next]_vars

InitHitNested == InitWith(NestedFamily, HitViewports)

SpecHitNested == InitHitNested /\ [][Next]_vars

AllTexts == TextFragments(render_root)

\* The text boxes outside inline-block fragments.
OuterTexts == SelectSeq(AllTexts, LAMBDA t : ~t.nested)

Holds(t) == contains(t.frag.rect, query.x, query.y)

(***************************************************************************)
(* C5 as stated: for every text box T of the render tree and every point   *)
(* inside T.rect, find_box_containing returns T itself, not a copy and not *)
(* another box.                                                            *)
(***************************************************************************)
C5_HitReturnsThatBox ==
    pc = "queried" =>
        \A t \in Range(AllTexts) :
            Holds(t) => hit.kind = "Text" /\ hit.path = t.path

(***************************************************************************)
(* C5 as amended: for every text box T outside inline-block fragments and  *)
(* every point inside T.rect, find_box_containing returns a text box of    *)
(* the tree (by reference) whose rect contains the point: T itself, unless *)
(* a text box before T in pre-order also contains the point (rects of      *)
(* neighbouring runs share their closed left/right edge and overlap        *)
(* vertically between lines), in which case the first such box.            *)
(***************************************************************************)
C5_HitReturnsFirstBoxAtPoint ==
    pc = "queried" =>
        LET ts == OuterTexts IN
        \A i \in 1..Len(ts) :
            Holds(ts[i]) =>
                /\ hit.kind = "Text"
                /\ contains(hit.rect, query.x, query.y)
                /\ \E j \in 1..i :
                      /\ hit.path = ts[j].path
                      /\ hit.rect = ts[j].frag.rect
                      /\ \A k \in 1..(j - 1) : ~Holds(ts[k])
                /\ (\A k \in 1..(i - 1) : ~Holds(ts[k])) => hit.path = ts[i].path

\* A point inside two text boxes, the earlier of which is returned, in a
\* tree where a later query hits the second box as well.
C5_Witness ==
    /\ pc = "queried"
    /\ LET ts == OuterTexts IN
       \E i, j \in 1..Len(ts) :
          /\ i < j
          /\ Holds(ts[i]) /\ Holds(ts[j])
          /\ ts[j].frag.rect.width > 0
          /\ hit.kind = "Text" /\ hit.path = ts[i].path

(***************************************************************************)
(* C6 as stated: find_box_containing returns the first text box in         *)
(* pre-order whose rect contains the point, and returns None exactly when  *)
(* no text box anywhere in the tree, at any depth, inside inline-block     *)
(* fragments included, contains the point.                                 *)
(***************************************************************************)
C6_HitFirstInPreorderOrNone ==
    pc = "queried" =>
        LET ts == AllTexts IN
        /\ is_none(hit) <=> (\A i \in 1..Len(ts) : ~Holds(ts[i]))
        /\ ~is_none(hit) =>
              \E i \in 1..Len(ts) :
                  /\ Holds(ts[i])
                  /\ hit.path = ts[i].path
                  /\ \A k \in 1..(i - 1) : ~Holds(ts[k])

(***************************************************************************)
(* C9: Rect.contains(px, py) is true exactly when x <= px <= x + width and *)
(* y <= py < y + height: left, right and top edges inside, bottom edge     *)
(* outside.                                                                *)
(***************************************************************************)
C9_ContainsClosedButBottom ==
    pc = "queried" =>
        \A t \in Range(AllTexts) :
            LET r == t.frag.rect IN
            ~is_none(text_find_box_containing(t.frag, t.path, query.x, query.y))
            <=> (/\ r.x <= query.x /\ query.x <= r.x + r.width
                 /\ r.y <= query.y /\ query.y < r.y + r.height)

\* A query on the bottom right corner of a text box of positive size, and
\* on the top right corner of another.
C9_Witness ==
    /\ pc = "queried"
    /\ \E t, u \in Range(AllTexts) :
          /\ t.frag.rect.width > 0 /\ u.frag.rect.width > 0
          /\ query.x = t.frag.rect.x + t.frag.rect.width
          /\ query.y = t.frag.rect.y + t.frag.rect.height
          /\ query.x = u.frag.rect.x + u.frag.rect.width
          /\ query.y = u.frag.rect.y
          /\ hit.kind = "Text" /\ hit.path = u.path

(***************************************************************************)
(* Error family: a block or display:none root, with a known or unknown     *)
(* font family, over short sequences of inline-block elements that load,   *)
(* fail to load, lack attributes, or are not supported.                    *)
(***************************************************************************)
ImgWith(attrs) == Element("img", "inline-block", NoProps, attrs, <<>>)

ErrItems ==
    {Text(<<20>>),
     Img(40, 30),
     ImgLoaded(40, 30, 50, 50),
     ImgWith("src" :> "missing.png"),
     ImgWith(("width" :> 40) @@ ("height" :> 30)),
     ImgWith(("width" :> -1) @@ ("height" :> 30) @@ ("src" :> "missing.png")),
     Button(NoProps, <<Text(<<30>>)>>),
     Button(NoProps, <<Div(NoProps, <<>>)>>),
     Button(NoProps, <<>>),
     Element("span", "inline-block", NoProps, NoAttrs, <<Text(<<20>>)>>),
     Anchor(<<Img(40, 30)>>)}

ErrRootProps ==
    {NoProps,
     "font-family" :> Keyword("papyrus"),
     "font-family" :> ArrayValue(<<StringLiteral("papyrus"), Keyword("monospace")>>),
     "font-family" :> ArrayValue(<<StringLiteral("papyrus")>>)}

ErrFamily ==
    {Element("body", d, p, NoAttrs, ch) :
        d \in {"block", "none"}, p \in ErrRootProps,
        ch \in SeqsUpTo(ErrItems, MaxChildren)}

InitErr == InitWith(ErrFamily, {Viewport(0, 0, 200)})

SpecErr == InitErr /\ [][NextLayout]_vars

\* Every styled node of a tree, in pre-order.
RECURSIVE Nodes(_)
Nodes(node) ==
    <<node>> \o Flatten([i \in 1..Len(node.children) |-> Nodes(node.children[i])])

\* The precondition violations the claim lists (a button without any child
\* is counted with the buttons whose child is not text).
PreconditionViolated ==
    \/ display(styled) = "none"
    \/ \E n \in Range(Nodes(styled)) :
          /\ n.kind = "element" /\ display(n) = "inline-block"
          /\ \/ n.tag \notin {"img", "button"}
             \/ /\ n.tag = "button"
                /\ (Len(n.children) = 0 \/ n.children[1].kind # "text")

(***************************************************************************)
(* C11: layout aborts (and returns no render tree) only on a precondition  *)
(* violation: root display none, inline-block on a tag other than img or   *)
(* button, a button whose child is not text.  Every other input, an img    *)
(* that cannot be loaded or lacks attributes and an unknown font family    *)
(* included, yields a complete render tree.                                *)
(***************************************************************************)
C11_AbortsOnlyOnPreconditions ==
    /\ pc \in {"build_panicked", "layout_panicked"} =>
          PreconditionViolated /\ render_root = NoRender
    /\ pc = "laid" => render_root # NoRender /\ ~HasPanic(render_root)

\* The img elements of the document that generate a box, in document order.
ImgNodes == SelectSeq(VisibleNodes(styled), LAMBDA n : n.kind = "element" /\ n.tag = "img")

FragmentsOfKind(k) ==
    SelectSeq(Fragments(render_root, <<>>, FALSE), LAMBDA f : f.frag.kind = k)

(***************************************************************************)
(* C12: every inline-block img whose load fails adds exactly one           *)
(* RenderErrorBox to a line of the enclosing anonymous box, of the         *)
(* declared width and height (100 each when the attribute is absent), and  *)
(* every img whose load succeeds adds exactly one RenderImageBox instead.  *)
(***************************************************************************)
C12_OneBoxPerImg ==
    pc = "laid" =>
        LET failed == SelectSeq(ImgNodes, LAMBDA n : ~load_image(n).ok)
            loaded == SelectSeq(ImgNodes, LAMBDA n : load_image(n).ok)
            errors == FragmentsOfKind("Error")
            images == FragmentsOfKind("Image")
        IN  /\ Len(images) = Len(loaded)
            /\ [i \in 1..Len(errors) |->
                    <<errors[i].frag.rect.width, errors[i].frag.rect.height>>]
               = [i \in 1..Len(failed) |->
                    <<AttrOr(failed[i], "width", 100), AttrOr(failed[i], "height", 100)>>]

(***************************************************************************)
(* C13: in a table row with n >= 1 cells, the k-th cell (k = 0..n-1,       *)
(* counting cells only) is laid out with rect.x = row.content.x +          *)
(* k * (row.content.width / n), rect.width = row.content.width / n and     *)
(* rect.y = row.content.y, whatever non-cell children the row also has.    *)
(***************************************************************************)
C13_CellsTileTheRow ==
    pc = "laid" =>
        LET rs == RenderBoxes(render_root)
            bs == LayoutCalls
        IN  \A i \in 1..Len(bs) :
                bs[i].box.box_type = "TableRowNode" =>
                    LET row == rs[i].rect
                        n == Len(rs[i].children)
                    IN  \A k \in 1..n :
                            LET cell == rs[i].children[k].rect IN
                            /\ cell.x = row.x + (k - 1) * (row.width \div n)
                            /\ cell.width = row.width \div n
                            /\ cell.y = row.y
                            /\ cell.x + cell.width <= row.x + row.width

\* The text fragments of a line, in order.
TextsOfLine(line) == SelectSeq(line.children, LAMBDA f : f.kind = "Text")

\* The inline contexts whose content is text only: text nodes and inline
\* elements, no inline-block.
TextOnly(box) == \A c \in Range(box.children) : c.box_type = "InlineNode"

(***************************************************************************)
(* C14: when the text of an anonymous box or table cell wraps over several *)
(* lines, the first text fragment of every line, the first line and every  *)
(* line started by a wrap, has rect.x equal to the anonymous box's rect.x, *)
(* for any containing-block x and any word widths.                         *)
(***************************************************************************)
C14_LinesStartAtLeftEdge ==
    pc = "laid" =>
        LET rs == RenderBoxes(render_root)
            bs == LayoutCalls
        IN  \A i \in 1..Len(rs) :
                (rs[i].kind = "Anonymous" /\ TextOnly(bs[i].box)) =>
                    \A line \in Range(rs[i].children) :
                        TextsOfLine(line) # <<>> =>
                            TextsOfLine(line)[1].rect.x = rs[i].rect.x

\* Text wrapped over three lines or more in a context at x > 0, every line
\* holding text of positive width, one of them in two fragments.
C14_Witness ==
    /\ pc = "laid"
    /\ LET rs == RenderBoxes(render_root)
           bs == LayoutCalls
       IN  \E i \in 1..Len(rs) :
              /\ rs[i].kind = "Anonymous" /\ TextOnly(bs[i].box)
              /\ rs[i].rect.x > 0
              /\ Len(rs[i].children) >= 3
              /\ \A line \in Range(rs[i].children) :
                    \E t \in Range(TextsOfLine(line)) : t.rect.width > 0
              /\ \E line \in Range(rs[i].children) : Len(TextsOfLine(line)) >= 2

(***************************************************************************)
(* Style family: a red body holding texts outside and inside anchors and   *)
(* spans; every text of the family has its own word width, so that a text  *)
(* fragment names the text node it was produced from.                      *)
(***************************************************************************)
SpanProps ==
    ("color" :> Keyword("green")) @@ ("font-weight" :> Keyword("bold"))
    @@ ("font-size" :> Px(20)) @@ ("font-style" :> Keyword("italic"))
    @@ ("font-family" :> Keyword("monospace")) @@ ("vertical-align" :> Keyword("super"))

Span(props, children) == Element("span", "inline", props, NoAttrs, children)

StyleItems ==
    {Text(<<20>>),
     Anchor(<<Text(<<40>>)>>),
     Anchor(<<Span(NoProps, <<Text(<<30>>)>>)>>),
     Span(SpanProps, <<Text(<<50>>)>>),
     Element("a", "inline", NoProps, NoAttrs, <<Text(<<60>>)>>),
     Div("color" :> Keyword("teal"), <<Anchor(<<Text(<<70>>)>>), Text(<<80>>)>>)}

StyleFamily ==
    {Element("body", "block", "color" :> Keyword("red"), NoAttrs, ch) :
        ch \in SeqsUpTo(StyleItems, MaxChildren)}

InitStyle == InitWith(StyleFamily, {Viewport(0, 0, 240), Viewport(0, 0, 60)})

SpecStyle == InitStyle /\ [][NextLayout]_vars

\* Where each word of the document comes from: [word, active, link], active
\* the nearest enclosing inline element (the block for its direct text) and
\* link the href of the nearest enclosing anchor of the same inline context.
RECURSIVE Origins(_, _, _)
Origins(node, active, link) ==
    IF node.kind = "text"
    THEN {[word |-> node.words[i], active |-> active, link |-> link] :
             i \in 1..Len(node.words)}
    ELSE LET inner_link ==
                 IF node.display # "inline" THEN NoLink
                 ELSE IF node.tag # "a" THEN link
                 ELSE IF "href" \in DOMAIN node.attrs THEN SomeLink(node.attrs["href"])
                 ELSE NoLink
         IN  UNION {Origins(node.children[i], node, inner_link) :
                       i \in 1..Len(node.children)}

WordsOf(text) == {text[i] : i \in {j \in 1..Len(text) : text[j] > 0}}

\* C15: every text fragment produced from text inside an anchor has that
\* anchor's href as its link, at any inline nesting depth, and every text
\* fragment produced from text outside anchors has no link.
C15_LinkIsAnchorHref ==
    pc = "laid" =>
        \A f \in Range(TextFragments(render_root)) :
            \A o \in Origins(styled, styled, NoLink) :
                o.word \in WordsOf(f.frag.text) => f.frag.link = o.link

\* The style do_inline gives a text fragment when node is the active style.
StyleFrom(node) ==
    [color |-> lookup_color(node, "color", "black"),
     font_weight |-> lookup_font_weight(node, 400),
     font_size |-> lookup_length_px(node, "font-size", 10),
     font_style |-> lookup_string(node, "font-style", "normal"),
     font_family |-> find_font_family([style_node |-> node]),
     valign |-> lookup_string(node, "vertical-align", "baseline")]

StyleOf(frag) ==
    [color |-> frag.color, font_weight |-> frag.font_weight,
     font_size |-> frag.font_size, font_style |-> frag.font_style,
     font_family |-> frag.font_family, valign |-> frag.valign]

\* C16: the color, font-weight, font-size, font-style, font-family and
\* vertical-align of every text fragment are read from the styled node of the
\* nearest enclosing inline element of its text, and from the block's styled
\* node only for text that is a direct child of the block.
C16_StyleOfNearestInlineElement ==
    pc = "laid" =>
        \A f \in Range(TextFragments(render_root)) :
            \A o \in Origins(styled, styled, NoLink) :
                o.word \in WordsOf(f.frag.text) => StyleOf(f.frag) = StyleFrom(o.active)

(***************************************************************************)
(* Tree family: roots of every box kind over inline-level, block-level and *)
(* display:none children, one of them a block whose inline runs are        *)
(* interrupted by a display:none child and by a block.                     *)
(***************************************************************************)
Hidden == Element("span", "none", NoProps, NoAttrs, <<Text(<<20>>)>>)

TreeItems ==
    {Text(<<20>>),
     Img(40, 30),
     Anchor(<<Text(<<30>>), Div(NoProps, <<>>), Img(40, 30)>>),
     Hidden,
     Div(NoProps, <<>>),
     Div(NoProps, <<Text(<<20>>), Hidden, Anchor(<<Text(<<30>>)>>),
                    Div(NoProps, <<>>), Img(40, 30)>>),
     Tr(NoProps, <<Td(<<Text(<<20>>), Div(NoProps, <<>>), Img(40, 30)>>),
                   Text(<<30>>), Img(40, 30), Td(<<>>)>>)}

TreeRootDisplays ==
    {"block", "table", "table-row-group", "table-row", "table-cell", "inline"}

TreeFamily ==
    {Element("body", d, NoProps, NoAttrs, ch) :
        d \in TreeRootDisplays, ch \in SeqsUpTo(TreeItems, MaxChildren)}

InitTree == InitWith(TreeFamily, {Viewport(0, 0, 200)})

SpecTree == InitTree /\ [][NextLayout]_vars

InlineLevel(node) == display(node) \in {"inline", "inline-block"}

InlineLevelBox(box) == box.box_type \in {"InlineNode", "InlineBlockNode"}

BlockContainer(box) ==
    box.box_type \in {"BlockNode", "TableNode", "TableRowGroupNode", "TableRowNode"}

\* The children of a node that generate boxes.
Generating(node) == SelectSeq(node.children, LAMBDA n : display(n) # "none")

\* The last index of the run of inline-level nodes that starts at i.
RunEnd(nodes, i) ==
    CHOOSE j \in i..Len(nodes) :
        /\ \A k \in i..j : InlineLevel(nodes[k])
        /\ j = Len(nodes) \/ ~InlineLevel(nodes[j + 1])

\* The box-generating children grouped: each maximal run of inline-level
\* nodes is one group, each block-level node a group of its own.
RECURSIVE Runs(_, _)
Runs(nodes, i) ==
    IF i > Len(nodes) THEN <<>>
    ELSE IF InlineLevel(nodes[i])
         THEN <<SubSeq(nodes, i, RunEnd(nodes, i))>> \o Runs(nodes, RunEnd(nodes, i) + 1)
         ELSE <<<<nodes[i]>>>> \o Runs(nodes, i + 1)

NodesOf(boxes) == [i \in 1..Len(boxes) |-> boxes[i].node]

HostsRuns(box) ==
    LET runs == Runs(Generating(box.node), 1) IN
    /\ Len(box.children) = Len(runs)
    /\ \A k \in 1..Len(runs) :
          IF InlineLevel(runs[k][1])
          THEN /\ box.children[k].box_type = "AnonymousBlock"
               /\ box.children[k].node = box.node
               /\ NodesOf(box.children[k].children) = runs[k]
          ELSE /\ box.children[k].box_type # "AnonymousBlock"
               /\ box.children[k].node = runs[k][1]
    /\ \A k \in 1..(Len(box.children) - 1) :
          ~(box.children[k].box_type = "AnonymousBlock"
            /\ box.children[k + 1].box_type = "AnonymousBlock")

\* C17: in the tree build_layout_tree returns, an Inline or InlineBlock box
\* only has a parent of kind Inline, InlineBlock, AnonymousBlock or TableCell;
\* under a Block, Table, TableRowGroup or TableRow box every maximal run of
\* consecutive inline-level children is hosted by exactly one AnonymousBlock
\* at the run's position among the block-level siblings, never next to
\* another AnonymousBlock; an AnonymousBlock has only Inline and InlineBlock
\* children and carries the styled node of its parent.
C17_InlineRunsInAnonymousBlocks ==
    pc = "built" =>
        \A b \in Range(Boxes(layout_root)) :
            /\ \A c \in Range(b.children) :
                  /\ InlineLevelBox(c) =>
                        b.box_type \in {"InlineNode", "InlineBlockNode",
                                        "AnonymousBlock", "TableCellNode"}
                  /\ c.box_type = "AnonymousBlock" =>
                        BlockContainer(b) /\ c.node = b.node
            /\ b.box_type = "AnonymousBlock" =>
                  b.children # <<>> /\ \A c \in Range(b.children) : InlineLevelBox(c)
            /\ BlockContainer(b) => HostsRuns(b)

C17_Witness ==
    /\ pc = "built"
    /\ \E b \in Range(Boxes(layout_root)) :
          /\ b.box_type = "BlockNode"
          /\ Len(b.node.children) = 5
          /\ Len(b.children) = 3
          /\ b.children[1].box_type = "AnonymousBlock"
          /\ Len(b.children[1].children) = 2
          /\ b.children[2].box_type = "BlockNode"
          /\ b.children[3].box_type = "AnonymousBlock"
    /\ layout_root.box_type = "TableRowNode"
    /\ Len(layout_root.children) = 2
    /\ layout_root.children[1].box_type = "AnonymousBlock"
    /\ layout_root.children[1].children[1].box_type = "InlineBlockNode"

(***************************************************************************)
(* C18: the used horizontal values of a Block, Table, TableRowGroup or     *)
(* TableRow box follow the resolution table.  With underflow the container *)
(* width minus the seven declared contributions (auto counted as 0), and   *)
(* auto margins first forced to 0 when the width is fixed and the sum      *)
(* exceeds the container: all three fixed adds underflow to margin-right;  *)
(* one auto margin takes underflow; two auto margins take underflow/2      *)
(* each; an auto width takes underflow when it is >= 0, and else becomes 0 *)
(* with underflow added to margin-right, its auto margins 0.  A resolved   *)
(* auto width is never negative.                                           *)
(***************************************************************************)
FollowsResolutionTable(box, cb) ==
    LET d == declared_widths(box, [DefaultDimensions EXCEPT !.content = cb])
        px(v) == length_to_px(box, v)
        underflow == cb.width - total_width(box, d)
        over == d.width # auto /\ total_width(box, d) > cb.width
        ml_auto == d.margin_left = auto /\ ~over
        mr_auto == d.margin_right = auto /\ ~over
        used == box.dimensions
    IN  /\ used.padding.left = px(d.padding_left)
        /\ used.padding.right = px(d.padding_right)
        /\ used.border.left = px(d.border_left)
        /\ used.border.right = px(d.border_right)
        /\ IF d.width = auto
           THEN /\ used.margin.left = px(d.margin_left)
                /\ used.content.width >= 0
                /\ IF underflow >= 0
                   THEN used.content.width = underflow
                        /\ used.margin.right = px(d.margin_right)
                   ELSE used.content.width = 0
                        /\ used.margin.right = px(d.margin_right) + underflow
           ELSE /\ used.content.width = px(d.width)
                /\ CASE ~ml_auto /\ ~mr_auto ->
                          /\ used.margin.left = px(d.margin_left)
                          /\ used.margin.right = px(d.margin_right) + underflow
                     [] ~ml_auto /\ mr_auto ->
                          /\ used.margin.left = px(d.margin_left)
                          /\ used.margin.right = underflow
                     [] ml_auto /\ ~mr_auto ->
                          /\ used.margin.left = underflow
                          /\ used.margin.right = px(d.margin_right)
                     [] ml_auto /\ mr_auto ->
                          /\ used.margin.left * 2 = underflow
                          /\ used.margin.right * 2 = underflow

C18_WidthResolutionTable ==
    pc = "laid" =>
        \A r \in Range(ReachedBoxes) :
            WidthResolved(r.box) => FollowsResolutionTable(r.box, r.cb)

\* A fixed width that overflows the container with one auto margin, forced
\* to 0, inside a block whose auto width took a positive underflow.
C18_Witness ==
    /\ pc = "laid"
    /\ Len(ReachedBoxes) = 2
    /\ ReachedBoxes[1].box.dimensions.content.width > 0
    /\ LET r == ReachedBoxes[2] IN
          /\ WidthResolved(r.box)
          /\ HasValue(r.box.node, "width")
          /\ r.box.dimensions.content.width > r.cb.width
          /\ lookup(r.box.node, "margin-left", "margin", zero) = auto
          /\ lookup(r.box.node, "margin-right", "margin", zero) # auto
          /\ r.box.dimensions.margin.left = 0
          /\ r.box.dimensions.margin.right < 0

\* An auto width whose fixed contributions exceed the container: width 0.
C18_WitnessAutoWidthOverflow ==
    /\ pc = "laid"
    /\ \E r \in Range(ReachedBoxes) :
          /\ WidthResolved(r.box)
          /\ ~HasValue(r.box.node, "width")
          /\ r.box.dimensions.content.width = 0
          /\ r.box.dimensions.margin.right < 0

(***************************************************************************)
(* Height family: a body of blocks whose height is undeclared, a px or em  *)
(* length, the keyword auto or a percentage, empty or with a text or a     *)
(* block of its own inside.                                                *)
(***************************************************************************)
HeightOpts ==
    {NoProps, "height" :> Px(30), "height" :> Length(2, "em"),
     ("height" :> Length(2, "em")) @@ ("font-size" :> Px(20)),
     "height" :> auto, "height" :> Length(50, "per")}

HeightChildren ==
    {<<>>, <<Text(<<20>>)>>,
     <<Div(("height" :> Px(30)) @@ ("margin" :> Px(5)), <<>>)>>}

HeightItems ==
    {Text(<<20>>)} \cup
    {Div(h @@ ("margin" :> Px(4)), ch) : h \in HeightOpts, ch \in HeightChildren}

HeightFamily ==
    {Element("body", "block", NoProps, NoAttrs, ch) :
        ch \in SeqsUpTo(HeightItems, MaxChildren)}

InitHeight == InitWith(HeightFamily, {Viewport(0, 0, 200)})

SpecHeight == InitHeight /\ [][NextLayout]_vars

\* The boxes layout_block ran on.
LaidOutByLayoutBlock == SelectSeq(ReachedBoxes, LAMBDA r : r.box.box_type \in BlockFormatted)

DeclaresHeightLength(box) ==
    HasValue(box.node, "height") /\ box.node.props["height"].t = "len"

\* C19: after layout_block, content.height is the declared height when the
\* style declares an explicit height length, and otherwise the sum of the
\* margin-box heights of the children (0 without children); the following
\* sibling is placed below the margin box that has this height.
C19_HeightDeclaredOrAccumulated ==
    pc = "laid" =>
        \A r \in Range(LaidOutByLayoutBlock) :
            /\ IF DeclaresHeightLength(r.box)
               THEN r.box.node.props["height"].u # "per" =>
                       r.box.dimensions.content.height =
                           length_to_px(r.box, r.box.node.props["height"])
               ELSE r.box.dimensions.content.height =
                       SumHeights(r.box.children, Len(r.box.children))
            /\ \A i \in 1..(Len(r.box.children) - 1) :
                  margin_box(r.box.children[i + 1].dimensions).y =
                      margin_box(r.box.children[i].dimensions).y
                      + margin_box(r.box.children[i].dimensions).height

\* The text runs of a one-text inline context when a word wraps exactly when
\* it would end right of the given right edge: [x, width] of each run flushed.
RECURSIVE RunsWrappingAt(_, _, _, _, _)
RunsWrappingAt(words, i, x, right, current_end) ==
    IF i > Len(words) THEN <<[x |-> x, width |-> current_end - x]>>
    ELSE IF current_end + words[i] > right
         THEN <<[x |-> x, width |-> current_end - x]>>
              \o RunsWrappingAt(words, i + 1, x, right, x + words[i])
         ELSE RunsWrappingAt(words, i + 1, x, right, current_end + words[i])

OneText(box) ==
    /\ Len(box.children) = 1
    /\ box.children[1].box_type = "InlineNode"
    /\ box.children[1].node.kind = "text"

RunRects(texts) == [k \in 1..Len(texts) |-> [x |-> texts[k].rect.x, width |-> texts[k].rect.width]]

\* C20: in the words of an inline text node, a word of width w starts a new
\* line exactly when current_end + w is greater than the right edge
\* extents.x + extents.width of the inline context, and is otherwise appended
\* to the current run, for contexts at any x: the text runs of a context
\* holding one text are those that this rule produces.
C20_WrapsExactlyAtRightEdge ==
    pc = "laid" =>
        LET rs == RenderBoxes(render_root)
            bs == LayoutCalls
        IN  \A i \in 1..Len(rs) :
                (rs[i].kind = "Anonymous" /\ OneText(bs[i].box)) =>
                    RunRects(TextsOfAnonymous(rs[i])) =
                        RunsWrappingAt(bs[i].box.children[1].node.words, 1, rs[i].rect.x,
                                       rs[i].rect.x + rs[i].rect.width, rs[i].rect.x)

IsImageFragment(f) == f.kind \in {"Image", "Error"}

\* C21: an inline-block image that does not fit closes the current line,
\* advances current_bottom by the closed line's height, starts a new line
\* below it and is placed at the start of that line; an image that fits is
\* placed on the current line at the cursor.  So an image that opens a later
\* line lies at the left edge of a line that begins where the previous line
\* ends, and an image that follows another fragment on its line begins where
\* that fragment ends.
C21_ImagePlacedAfterWrap ==
    pc = "laid" =>
        \A a \in Range(AnonymousBoxes(render_root)) :
            \A k \in 1..Len(a.children) :
                \A j \in 1..Len(a.children[k].children) :
                    LET line == a.children[k]
                        f == line.children[j]
                    IN  IsImageFragment(f) =>
                           IF j = 1
                           THEN /\ f.rect.x = line.rect.x
                                /\ k > 1 => line.rect.y = a.children[k - 1].rect.y
                                                          + a.children[k - 1].rect.height
                           ELSE f.rect.x = line.children[j - 1].rect.x
                                           + line.children[j - 1].rect.width

(***************************************************************************)
(* C22: after a line is closed, the rect.y of each of its fragments        *)
(* follows its vertical-align keyword: top gives line.y; middle gives      *)
(* line.y + (line.height - rect.height)/2; bottom gives                    *)
(* line.y + line.height - rect.height; baseline gives the bottom value     *)
(* minus 10; super the baseline value minus 10; an unknown keyword leaves  *)
(* the fragment at the y it was placed at, the top of its line.  Aligning  *)
(* a line changes nothing but rect.y, and every line is aligned, the last  *)
(* one included.                                                           *)
(***************************************************************************)
KnownAlignments == {"top", "middle", "bottom", "baseline", "super", "sub"}

OnlyYChanged(line) ==
    LET after == adjust_current_line_vertical([current |-> line]).current IN
    /\ after.rect = line.rect
    /\ Len(after.children) = Len(line.children)
    /\ \A i \in 1..Len(line.children) :
          after.children[i] = [line.children[i] EXCEPT !.rect.y = after.children[i].rect.y]

C22_AlignedByKeyword ==
    pc = "laid" =>
        \A line \in Range(Lines(render_root)) :
            /\ OnlyYChanged(line)
            /\ \A f \in Range(line.children) :
                  LET bottom == line.rect.y + line.rect.height - f.rect.height IN
                  /\ f.valign = "top" => f.rect.y = line.rect.y
                  /\ f.valign = "middle" =>
                        (f.rect.y - line.rect.y) * 2 = line.rect.height - f.rect.height
                  /\ f.valign = "bottom" => f.rect.y = bottom
                  /\ f.valign = "baseline" => f.rect.y = bottom - 10
                  /\ f.valign = "super" => f.rect.y = bottom - 10 - 10
                  /\ f.valign \notin KnownAlignments => f.rect.y = line.rect.y

\* A box of two lines whose last line holds a fragment lower than the line,
\* aligned by middle, next to text with an unknown keyword.
C22_Witness ==
    /\ pc = "laid"
    /\ \E a \in Range(AnonymousBoxes(render_root)) :
          /\ Len(a.children) >= 2
          /\ LET last == a.children[Len(a.children)] IN
                \E f, g \in Range(last.children) :
                    /\ f.valign = "middle" /\ f.rect.height < last.rect.height
                    /\ f.rect.y > last.rect.y
                    /\ g.valign \notin KnownAlignments /\ g.rect.width > 0

\* The y the baseline keyword gives a fragment of this height in this line.
BaselineY(line, f) == line.rect.y + line.rect.height - f.rect.height - 10

ListedFamilies(v) ==
    CASE v.t = "arr" ->
            LET named == SelectSeq(v.items, LAMBDA e : e.t \in {"str", "kw"}) IN
            [i \in 1..Len(named) |-> named[i].s]
      [] v.t = "kw" -> <<v.s>>
      [] OTHER -> <<>>

\* The first listed family the font cache has, sans-serif when there is none.
FirstCachedFamily(names) ==
    IF \E i \in 1..Len(names) : has_font_family(names[i])
    THEN names[CHOOSE i \in 1..Len(names) :
                  /\ has_font_family(names[i])
                  /\ \A j \in 1..(i - 1) : ~has_font_family(names[j])]
    ELSE "sans-serif"

\* C24: the font family of a text is the first family its font-family value
\* lists (a single keyword or an array of string literals and keywords) that
\* the font cache has, and sans-serif when it has none of them; so it is
\* always a family of the font cache or sans-serif.
C24_FirstCachedFamilyOrSansSerif ==
    pc = "laid" =>
        \A f \in Range(TextFragments(render_root)) :
            /\ f.frag.font_family =
                  FirstCachedFamily(ListedFamilies(
                      lookup(styled, "font-family", "font-family", Keyword("sans-serif"))))
            /\ has_font_family(f.frag.font_family) \/ f.frag.font_family = "sans-serif"

\* A text split on whitespace: its words (0 is the space character).
SplitWhitespace(text) == SelectSeq(text, LAMBDA c : c > 0)

\* The texts of the text fragments of an anonymous box, concatenated in line
\* order.
ConcatTexts(a) ==
    LET ts == TextsOfAnonymous(a) IN
    Flatten([k \in 1..Len(ts) |-> ts[k].text])

\* C25: the texts of the RenderTextBox fragments that the text nodes of an
\* inline context produce, concatenated in line order and split on
\* whitespace, are exactly the words of these text nodes in source order: no
\* word is dropped, duplicated, split or reordered, whatever the word widths
\* and the line width.
C25_WordsPreserved ==
    pc = "laid" =>
        LET rs == RenderBoxes(render_root)
            bs == LayoutCalls
        IN  \A i \in 1..Len(rs) :
                rs[i].kind = "Anonymous" =>
                    SplitWhitespace(ConcatTexts(rs[i])) = WordsOfContext(bs[i].box)

\* Three words of one text node, one of them wider than the line, wrapped
\* over three lines or more in a context that is not at x = 0.
C25_Witness ==
    /\ pc = "laid"
    /\ LET rs == RenderBoxes(render_root)
           bs == LayoutCalls
       IN  \E i \in 1..Len(rs) :
               /\ rs[i].kind = "Anonymous"
               /\ rs[i].rect.x > 0
               /\ Len(rs[i].children) >= 3
               /\ OneText(bs[i].box)
               /\ Len(WordsOfContext(bs[i].box)) = 3
               /\ \E w \in Range(WordsOfContext(bs[i].box)) : w > rs[i].rect.width
               /\ \E v, w \in Range(WordsOfContext(bs[i].box)) : v # w

RECURSIVE SumLineHeights(_, _)
SumLineHeights(lines, n) ==
    IF n = 0 THEN 0 ELSE SumLineHeights(lines, n - 1) + lines[n].rect.height

\* C26: in every RenderAnonymousBox, whatever fragments its lines hold, the
\* first line starts at the box's rect.y, every later line starts where the
\* previous line ends, and the box's rect.height, which is also the
\* content.height its LayoutBox reports, is the sum of the heights of its
\* lines.
C26_LinesStackedAndSummed ==
    pc = "laid" =>
        LET rs == RenderBoxes(render_root)
            bs == LayoutCalls
        IN  \A i \in 1..Len(rs) :
                rs[i].kind = "Anonymous" =>
                    LET lines == rs[i].children IN
                    /\ lines[1].rect.y = rs[i].rect.y
                    /\ \A k \in 2..Len(lines) :
                          lines[k].rect.y = lines[k - 1].rect.y + lines[k - 1].rect.height
                    /\ rs[i].rect.height = SumLineHeights(lines, Len(lines))
                    /\ bs[i].box.dimensions.content.height = rs[i].rect.height

\* C27: within one line box the fragments lie left to right without
\* horizontal overlap: each fragment's rect.x is at least the previous
\* fragment's rect.x + rect.width, for any sequence of text, image, error
\* and button fragments.
C27_FragmentsLeftToRight ==
    pc = "laid" =>
        \A line \in Range(Lines(render_root)) :
            \A j \in 2..Len(line.children) :
                line.children[j].rect.x >=
                    line.children[j - 1].rect.x + line.children[j - 1].rect.width

IsTextBox(box) == box.box_type = "InlineNode" /\ box.node.kind = "text"

IsImgBox(box) ==
    box.box_type = "InlineBlockNode" /\ box.node.kind = "element" /\ box.node.tag = "img"

\* C28: every text node and every img element that has a LayoutBox yields
\* at least one fragment in the render tree, wherever it sits: each text
\* box's words are found in a RenderTextBox, and there are at least as many
\* text fragments as text boxes and as many image or error fragments as img
\* boxes.
C28_ContentPreserved ==
    pc = "laid" =>
        LET boxes == Boxes(layout_root)
            frags == Fragments(render_root, <<>>, FALSE)
            texts == SelectSeq(frags, LAMBDA f : f.frag.kind = "Text")
            images == SelectSeq(frags, LAMBDA f : IsImageFragment(f.frag))
        IN  /\ \A b \in Range(boxes) :
                  (IsTextBox(b) /\ b.node.words # <<>>) =>
                      \E f \in Range(texts) : b.node.words[1] \in Range(f.frag.text)
            /\ Len(texts) >= Len(SelectSeq(boxes, IsTextBox))
            /\ Len(images) >= Len(SelectSeq(boxes, IsImgBox))

(***************************************************************************)
(* A second layout of the same tree: LayoutBox::layout is called again on  *)
(* the layout tree as the first call left it, with the same viewport.      *)
(***************************************************************************)
Relayout ==
    /\ pc = "laid"
    /\ LET returned(r) ==
               pc' = "relaid" /\ layout_root' = r.box /\ render_root' = r.render
       IN  returned(layout(layout_root, viewport))
    /\ UNCHANGED <<styled, viewport, query, hit, window>>

NextRelayout == BuildLayoutTree \/ Layout \/ Relayout

SpecRelayout == InitFlow /\ [][NextRelayout]_vars

\* What the first call returned: the layout of the freshly built tree.
FirstRender == layout(build_layout_tree(styled), viewport).render

\* C29: a second call of layout on the same tree, with the same containing
\* block, returns a render tree with the rectangles of the first call.
C29_LayoutIdempotent ==
    pc = "relaid" => render_root = FirstRender

(***************************************************************************)
(* The window loop of main.  The pages a link can lead to are two blocks   *)
(* that are anchors themselves, so that their text carries a link, and a   *)
(* body with an inline anchor.  One Frame is one iteration of the loop:    *)
(* the resize check, the right-button query, the left-button click and the *)
(* update of prev_left_down, with the window size, the buttons and the     *)
(* mouse position as inputs.                                               *)
(***************************************************************************)
PageNames == {"x.html", "y.html", "z.html"}

PageDoc(name) ==
    CASE name = "x.html" ->
            Element("a", "block", NoProps, "href" :> "y.html", <<Text(<<20>>)>>)
      [] name = "y.html" ->
            Element("a", "block", NoProps, "href" :> "x.html",
                    <<Text(<<30>>), Img(40, 30)>>)
      [] OTHER ->
            Element("body", "block", NoProps, NoAttrs,
                    <<Text(<<20>>), Anchor(<<Text(<<30>>)>>)>>)

WindowWidths == {120, 240}

ClickCoords == {0, 100}

InitWindow ==
    /\ \E name \in PageNames : styled = PageDoc(name) /\ window = NewWindow(name)
    /\ viewport = Viewport(0, 0, 240)
    /\ pc = "init"
    /\ layout_root = NoBox
    /\ render_root = NoRender
    /\ query = [x |-> 0, y |-> 0]
    /\ hit = NoHit

\* navigate_to_doc: the document of the page, its layout tree and render tree.
navigate_to_doc(name, containing_block) ==
    LET laid(doc, r) == [doc |-> doc, box |-> r.box, render |-> r.render]
        styled_tree(doc) == laid(doc, layout(build_layout_tree(doc), containing_block))
    IN  styled_tree(PageDoc(name))

Frame ==
    /\ pc = "laid"
    /\ window.frames < MaxFrames
    /\ \E w \in WindowWidths, left_down, right_down \in BOOLEAN, x, y \in ClickCoords :
          LET containing_block ==
                  IF w # window.prev_w
                  THEN [viewport EXCEPT !.content.width = w]
                  ELSE viewport
              right_fires == right_down /\ ~window.prev_right_down
              left_fires == left_down /\ ~window.prev_left_down
              drawn(final, res, navigates) ==
                  /\ styled' = final.doc
                  /\ layout_root' = final.box
                  /\ render_root' = final.render
                  /\ query' = IF left_fires \/ right_fires THEN [x |-> x, y |-> y] ELSE query
                  /\ hit' = IF left_fires \/ right_fires THEN res ELSE hit
                  /\ window' =
                        [window EXCEPT
                            !.prev_w = w,
                            !.prev_left_down = left_down,
                            !.frames = @ + 1,
                            !.left_started =
                                IF ~left_down THEN 0
                                ELSE IF navigates THEN @ + 1 ELSE @,
                            !.right_started =
                                IF ~right_down THEN 0
                                ELSE IF right_fires THEN @ + 1 ELSE @]
              clicked(cur, res, navigates) ==
                  drawn(IF navigates
                        THEN navigate_to_doc(res.link.val, containing_block)
                        ELSE cur,
                        res, navigates)
              queried(cur, res) ==
                  clicked(cur, res, left_fires /\ res.kind = "Text" /\ res.link.some)
              resized(cur) == queried(cur, find_box_containing(cur.render, <<>>, x, y))
          IN  /\ resized(IF w # window.prev_w
                         THEN navigate_to_doc(window.start_page, containing_block)
                         ELSE [doc |-> styled, box |-> layout_root, render |-> render_root])
              /\ viewport' = containing_block
    /\ pc' = "laid"

NextWindow == BuildLayoutTree \/ Layout \/ Frame

SpecWindow == InitWindow /\ [][NextWindow]_vars

\* C30: mouse actions fire only on the frame where a button goes from up to
\* down: while the left button is held over consecutive frames at most one
\* link navigation is started, and while the right button is held over
\* consecutive frames the hit-test query runs at most once.
C30_OneActionPerPress ==
    window.left_started <= 1 /\ window.right_started <= 1

====
